---------------------------- MODULE Spec2Model ----------------------------
(***************************************************************************)
(* A model of the streaming core of deepseek-api-rs:                       *)
(*   - StreamingMessageBuilder (models.rs): a JSON tree mutated by patches *)
(*   - SseParser / response_to_chunk_stream (lib.rs): line decoder and     *)
(*     chunk classifier                                                    *)
(*   - DeepSeekAPI::complete_stream (lib.rs): the continuation loop        *)
(*                                                                         *)
(* Text is a sequence of atoms (each atom stands for a run of bytes), so   *)
(* string concatenation is \o and a block boundary can fall inside a line. *)
(* A JSON value is kept flat: a function from paths (sequences of keys) to *)
(* scalar leaves; an object is the set of leaves below it, and an empty    *)
(* object is a leaf of its own.                                            *)
(***************************************************************************)
EXTENDS Integers, Sequences, FiniteSets, TLC

(***************************************************************************)
(* JSON values (serde_json::Value)                                         *)
(***************************************************************************)
Str(s) == [t |-> "str", s |-> s, n |-> 0]
Num(i) == [t |-> "num", s |-> <<>>, n |-> i]
Null == [t |-> "null", s |-> <<>>, n |-> 0]
EObj == [t |-> "eobj", s |-> <<>>, n |-> 0]

\* Option::None for an optional value: the function with no leaf at all.
Absent == [q \in {} |-> Null]

\* A scalar (or empty-object) value: one leaf at the root path.
Scalar(leaf) == [q \in {<<>>} |-> leaf]

\* A key of an object: the atoms of its name.
K(name) == <<name>>

IsPrefix(p, q) == Len(p) <= Len(q) /\ SubSeq(q, 1, Len(p)) = p

\* Value::get along a path: the value below `p`, Absent when there is none.
Sub(v, p) ==
    LET below == {x \in DOMAIN v : IsPrefix(p, x)}
        rel == {SubSeq(x, Len(p) + 1, Len(x)) : x \in below}
    IN [q \in rel |-> v[p \o q]]

IsObject(v) == v # Absent /\ (<<>> \notin DOMAIN v \/ v[<<>>].t = "eobj")
IsString(v) == <<>> \in DOMAIN v /\ v[<<>>].t = "str"

\* Put value `v` at path `p`: what was at `p` is overwritten, and a leaf on the
\* way to `p` gives way to the object that now holds `p`.
Graft(tree, p, v) ==
    LET keep == {x \in DOMAIN tree : ~IsPrefix(x, p) /\ ~IsPrefix(p, x)}
        new == {p \o q : q \in DOMAIN v}
    IN [x \in keep \cup new |->
            IF x \in new THEN v[SubSeq(x, Len(p) + 1, Len(x))] ELSE tree[x]]

\* An object built from (key, value) pairs.
Obj(pairs) ==
    LET dom == UNION {{<<K(pr[1])>> \o q : q \in DOMAIN pr[2]} : pr \in pairs}
    IN IF dom = {} THEN Scalar(EObj)
       ELSE [x \in dom |->
                LET pr == CHOOSE c \in pairs : x[1] = K(c[1]) /\ Tail(x) \in DOMAIN c[2]
                IN pr[2][Tail(x)]]

\* An array: a leaf at the root that holds its length, and element i (from 0)
\* below the key "[i]", which no object has.
ArrLeaf(len) == [t |-> "arr", s |-> <<>>, n |-> len]
IxNames == <<"[0]", "[1]", "[2]">>
Arr(elems) ==
    LET dom == UNION {{<<K(IxNames[i])>> \o q : q \in DOMAIN elems[i]} : i \in 1..Len(elems)}
    IN [x \in {<<>>} \cup dom |->
           IF x = <<>> THEN ArrLeaf(Len(elems))
           ELSE LET i == CHOOSE k \in 1..Len(elems) : x[1] = K(IxNames[k])
                IN elems[i][Tail(x)]]
IsArray(v) == <<>> \in DOMAIN v /\ v[<<>>].t = "arr"

(***************************************************************************)
(* Paths: str::split('/')                                                  *)
(***************************************************************************)
RECURSIVE Split(_)
Split(s) ==
    IF \A i \in 1..Len(s) : s[i] # "/" THEN <<s>>
    ELSE LET i == CHOOSE j \in 1..Len(s) :
                    s[j] = "/" /\ \A k \in 1..(j - 1) : s[k] # "/"
         IN <<SubSeq(s, 1, i - 1)>> \o Split(SubSeq(s, i + 1, Len(s)))

ContentPath == <<"response", "/", "content">>
ThinkingPath == <<"response", "/", "thinking_content">>


(***************************************************************************)
(* Option<String>, errors, Message                                         *)
(***************************************************************************)
NoneS == [some |-> FALSE, val |-> <<>>]
Some(s) == [some |-> TRUE, val |-> s]

NoErr == [kind |-> "none", text |-> <<>>]
Err(kind, text) == [kind |-> kind, text |-> text]

NoneLeaf == [t |-> "none", s |-> <<>>, n |-> 0]

\* Message::default(): every optional field None, content the empty string.
DefaultMessage ==
    [message_id |-> NoneLeaf, parent_id |-> NoneLeaf, role |-> NoneLeaf,
     inserted_at |-> NoneLeaf, content |-> Str(<<>>), thinking_content |-> NoneLeaf,
     status |-> NoneLeaf, accumulated_token_usage |-> NoneLeaf]

\* The fields of Message and how serde reads each:
\*   "onum"  Option<i64> / Option<f64> with #[serde(default)]
\*   "ostr"  Option<String> with #[serde(default)]
\*   "str"   String with #[serde(default)]
FieldKind ==
    [message_id |-> "onum", parent_id |-> "onum", role |-> "ostr",
     inserted_at |-> "onum", content |-> "str", thinking_content |-> "ostr",
     status |-> "ostr", accumulated_token_usage |-> "onum"]

\* One field of a struct read from object `v`: [ok, leaf].
ReadField(v, name, kind) ==
    LET x == Sub(v, <<K(name)>>)
        leaf == IF <<>> \in DOMAIN x THEN x[<<>>] ELSE EObj
    IN CASE x = Absent ->
              [ok |-> TRUE, leaf |-> IF kind = "str" THEN Str(<<>>) ELSE NoneLeaf]
         [] x # Absent /\ <<>> \notin DOMAIN x -> [ok |-> FALSE, leaf |-> NoneLeaf]
         [] OTHER ->
              CASE leaf.t = "null" /\ kind # "str" -> [ok |-> TRUE, leaf |-> NoneLeaf]
                [] leaf.t = "str" /\ kind \in {"str", "ostr"} -> [ok |-> TRUE, leaf |-> leaf]
                [] leaf.t = "num" /\ kind = "onum" -> [ok |-> TRUE, leaf |-> leaf]
                [] OTHER -> [ok |-> FALSE, leaf |-> NoneLeaf]

\* serde_json::from_value::<Message>: a struct is read from an object, unknown
\* keys are ignored, and one field of the wrong type fails the whole read.
MessageFromValue(v) ==
    LET rd == [f \in DOMAIN FieldKind |-> ReadField(v, f, FieldKind[f])]
    IN IF IsObject(v) /\ \A f \in DOMAIN FieldKind : rd[f].ok
       THEN [ok |-> TRUE, msg |-> [f \in DOMAIN FieldKind |-> rd[f].leaf]]
       ELSE [ok |-> FALSE, msg |-> DefaultMessage]

(***************************************************************************)
(* StreamingMessageBuilder (models.rs)                                     *)
(***************************************************************************)
\* StreamingMessageBuilder::default(): inner = {}
DefaultBuilder == Scalar(EObj)

\* The walk as it would be if an array on the way kept its elements when it
\* gives way to the object.
NavigateKeepingElements(inner, parent) ==
    IF IsObject(Sub(inner, parent)) THEN inner ELSE Graft(inner, parent, Scalar(EObj))

\* The walk to the parent of the target key: every node on the way that is not
\* an object is replaced by an empty object (an array with all its elements),
\* a missing one is created as {}.
Navigate(inner, parent) ==
    IF IsObject(Sub(inner, parent)) THEN inner
    ELSE [x \in {y \in DOMAIN inner :
                    \A i \in 0..Len(y) : ~(/\ SubSeq(y, 1, i) \in DOMAIN inner
                                            /\ IsPrefix(SubSeq(y, 1, i), parent))}
                \cup {parent} |->
             IF x = parent THEN EObj ELSE inner[x]]

\* ApplyAppend as it would be if the operand replaced the text held.
ApplyAppendOverwriting(inner, keys, value, path) ==
    LET entry == Sub(inner, keys)
        held == IF entry = Absent THEN Graft(inner, keys, Scalar(Str(<<>>))) ELSE inner
        existing == Sub(held, keys)
    IN IF IsString(existing) /\ IsString(value)
       THEN [err |-> NoErr, inner |-> Graft(held, keys, value)]
       ELSE [err |-> Err("TypeMismatch", path), inner |-> held]

\* The APPEND arm as it would be if a non-string entry or operand were skipped
\* instead of refused.
ApplyAppendLenient(inner, keys, value, path) ==
    LET entry == Sub(inner, keys)
        held == IF entry = Absent THEN Graft(inner, keys, Scalar(Str(<<>>))) ELSE inner
        existing == Sub(held, keys)
    IN IF IsString(existing) /\ IsString(value)
       THEN [err |-> NoErr,
             inner |-> Graft(held, keys, Scalar(Str(existing[<<>>].s \o value[<<>>].s)))]
       ELSE [err |-> NoErr, inner |-> held]

\* The APPEND arm: entry(last_key).or_insert(""), then push_str when both the
\* entry and the operand are strings.
ApplyAppend(inner, keys, value, path) ==
    LET entry == Sub(inner, keys)
        held == IF entry = Absent THEN Graft(inner, keys, Scalar(Str(<<>>))) ELSE inner
        existing == Sub(held, keys)
    IN IF IsString(existing) /\ IsString(value)
       THEN [err |-> NoErr,
             inner |-> Graft(held, keys, Scalar(Str(existing[<<>>].s \o value[<<>>].s)))]
       ELSE [err |-> Err("TypeMismatch", path), inner |-> held]

\* apply_update as it would be if the walk refused a parent that is missing or
\* is not an object.
apply_updateStrict(inner, update) ==
    IF ~update.p.some THEN [err |-> Err("MissingPath", <<>>), inner |-> inner]
    ELSE IF update.v = Absent THEN [err |-> Err("MissingV", <<>>), inner |-> inner]
    ELSE
      LET path == update.p.val
          operation == IF update.o.some THEN update.o.val ELSE <<"SET">>
          keys == Split(path)
      IN CASE ~IsObject(Sub(inner, SubSeq(keys, 1, Len(keys) - 1))) ->
                [err |-> Err("MissingParent", path), inner |-> inner]
           [] operation = <<"SET">> ->
                [err |-> NoErr, inner |-> Graft(inner, keys, update.v)]
           [] operation = <<"APPEND">> -> ApplyAppend(inner, keys, update.v, path)
           [] OTHER -> [err |-> Err("UnknownOp", path), inner |-> inner]

\* apply_update as it would be if a name it does not know were taken as SET.
apply_updateDefaultingToSet(inner, update) ==
    IF ~update.p.some THEN [err |-> Err("MissingPath", <<>>), inner |-> inner]
    ELSE IF update.v = Absent THEN [err |-> Err("MissingV", <<>>), inner |-> inner]
    ELSE
      LET path == update.p.val
          operation == IF update.o.some THEN update.o.val ELSE <<"SET">>
          keys == Split(path)
          walked == Navigate(inner, SubSeq(keys, 1, Len(keys) - 1))
      IN CASE operation = <<"APPEND">> -> ApplyAppend(walked, keys, update.v, path)
           [] OTHER -> [err |-> NoErr, inner |-> Graft(walked, keys, update.v)]

\* StreamingMessageBuilder::apply_update: [err, inner].
apply_update(inner, update) ==
    IF ~update.p.some THEN [err |-> Err("MissingPath", <<>>), inner |-> inner]
    ELSE IF update.v = Absent THEN [err |-> Err("MissingV", <<>>), inner |-> inner]
    ELSE
      LET path == update.p.val
          operation == IF update.o.some THEN update.o.val ELSE <<"SET">>
          keys == Split(path)
          walked == Navigate(inner, SubSeq(keys, 1, Len(keys) - 1))
      IN CASE operation = <<"SET">> ->
                [err |-> NoErr, inner |-> Graft(walked, keys, update.v)]
           [] operation = <<"APPEND">> -> ApplyAppend(walked, keys, update.v, path)
           [] OTHER -> [err |-> Err("UnknownOp", path), inner |-> walked]

\* build as it would be if a tree without `response` were refused.
buildRequiringResponse(inner) ==
    LET response == Sub(inner, <<K("response")>>)
    IN IF response # Absent THEN MessageFromValue(response)
       ELSE [ok |-> FALSE, msg |-> DefaultMessage]

\* StreamingMessageBuilder::build: [ok, msg].
build(inner) ==
    LET response == Sub(inner, <<K("response")>>)
    IN IF response # Absent THEN MessageFromValue(response) ELSE MessageFromValue(inner)

(***************************************************************************)
(* Bytes on the wire.  An atom is a run of bytes: literal text, or the     *)
(* text of one JSON document (j is the document serde_json reads from it). *)
(***************************************************************************)
Lit(b) == [b |-> b, j |-> Absent]
Json(doc) == [b |-> "json", j |-> doc]
NL == Lit("\n")

FinishLine == <<Lit("event: "), Lit("finish")>>
ToastLine == <<Lit("event: "), Lit("toast")>>
DataPrefix == Lit("data: ")

\* serde_json::from_slice::<Value>: [ok, val].  Only the bytes of exactly one
\* document parse; anything else (no bytes, stray text, two documents) fails.
JsonParse(data_json) ==
    IF Len(data_json) = 1 /\ data_json[1].j # Absent
    THEN [ok |-> TRUE, val |-> data_json[1].j]
    ELSE [ok |-> FALSE, val |-> Absent]

\* An Option<String> field of StreamingUpdate: [ok, opt].
ReadOptStr(val, name) ==
    LET x == Sub(val, <<K(name)>>)
    IN CASE x = Absent \/ x = Scalar(Null) -> [ok |-> TRUE, opt |-> NoneS]
         [] IsString(x) -> [ok |-> TRUE, opt |-> Some(x[<<>>].s)]
         [] OTHER -> [ok |-> FALSE, opt |-> NoneS]

\* serde_json::from_slice::<StreamingUpdate>: [ok, data].  A missing or null
\* "v" reads as None.  The derived Deserialize reads the struct from a JSON
\* object by field name, and also from a JSON array by position (p, v, o): the
\* array must have the three elements, since "v" and "o" have no default and
\* an element left over is an error.
ParseUpdate(data_json) ==
    LET js == JsonParse(data_json)
        seq == js.ok /\ IsArray(js.val)
        p == ReadOptStr(js.val, IF seq THEN IxNames[1] ELSE "p")
        o == ReadOptStr(js.val, IF seq THEN IxNames[3] ELSE "o")
        v == Sub(js.val, <<K(IF seq THEN IxNames[2] ELSE "v")>>)
    IN IF js.ok /\ (IsObject(js.val) \/ (seq /\ js.val[<<>>].n = 3)) /\ p.ok /\ o.ok
       THEN [ok |-> TRUE,
             data |-> [p |-> p.opt, v |-> IF v = Scalar(Null) THEN Absent ELSE v, o |-> o.opt]]
       ELSE [ok |-> FALSE, data |-> [p |-> NoneS, v |-> Absent, o |-> NoneS]]

(***************************************************************************)
(* StreamChunk and the items a stream yields (Result<StreamChunk>)         *)
(***************************************************************************)
Content(c) == [tag |-> "Content", text |-> c, msg |-> DefaultMessage, err |-> NoErr]
Thinking(c) == [tag |-> "Thinking", text |-> c, msg |-> DefaultMessage, err |-> NoErr]
Message(m) == [tag |-> "Message", text |-> <<>>, msg |-> m, err |-> NoErr]
Failure(e) == [tag |-> "Err", text |-> <<>>, msg |-> DefaultMessage, err |-> e]

IsDelta(item) == item.tag \in {"Content", "Thinking"}

(***************************************************************************)
(* SseParser (lib.rs)                                                      *)
(***************************************************************************)
\* SseParser::new()
NewParser == [builder |-> DefaultBuilder, current_property |-> NoneS, toast_error |-> NoneS]

\* ChunkFor as it would be if the path were not looked at.
ChunkForAnyPath(path, v) ==
    IF IsString(v) THEN <<Content(v[<<>>].s)>> ELSE <<>>

\* The chunk a textual value yields at `path`: zero or one item.
ChunkFor(path, v) ==
    CASE path = ContentPath /\ IsString(v) -> <<Content(v[<<>>].s)>>
      [] path = ThinkingPath /\ IsString(v) -> <<Thinking(v[<<>>].s)>>
      [] OTHER -> <<>>

\* IsErrorFrame as it would be if the error shape were never looked for.
IsErrorFrameSkipped(js) == FALSE

\* The check made before anything else: a document {"type":"error","content":text}.
IsErrorFrame(js) ==
    /\ js.ok
    /\ Sub(js.val, <<K("type")>>) = Scalar(Str(<<"error">>))
    /\ IsString(Sub(js.val, <<K("content")>>))

\* Ok(None), Ok(Some(chunk)) and Err(e) of process_data_line: the parser as the
\* call leaves it, the item yielded (at most one) and whether the call failed.
Ret(parser, items, failed) == [parser |-> parser, items |-> items, failed |-> failed]

\* Continuation as it would be if the frame kept its own operation name.
ContinuationKeepingOp(parser, data) ==
    IF ~parser.current_property.some THEN Ret(parser, <<>>, FALSE)
    ELSE LET cur == parser.current_property.val
             update == [data EXCEPT !.p = Some(cur)]
             applied == apply_update(parser.builder, update)
             after == [parser EXCEPT !.builder = applied.inner]
         IN IF applied.err # NoErr THEN Ret(after, <<Failure(applied.err)>>, TRUE)
            ELSE Ret(after, ChunkFor(cur, data.v), FALSE)

\* Continuation as it would be if the path in hand were used up by it.
ContinuationConsumingPath(parser, data) ==
    IF ~parser.current_property.some THEN Ret(parser, <<>>, FALSE)
    ELSE LET cur == parser.current_property.val
             update == [data EXCEPT !.p = Some(cur), !.o = Some(<<"APPEND">>)]
             applied == apply_update(parser.builder, update)
             after == [parser EXCEPT !.builder = applied.inner, !.current_property = NoneS]
         IN IF applied.err # NoErr THEN Ret(after, <<Failure(applied.err)>>, TRUE)
            ELSE Ret(after, ChunkFor(cur, data.v), FALSE)

\* Continuation as it would be if a frame without a path were an error while
\* no path has been seen.
ContinuationNeedingPath(parser, data) ==
    IF ~parser.current_property.some
    THEN Ret(parser, <<Failure(Err("MissingPath", <<>>))>>, TRUE)
    ELSE LET cur == parser.current_property.val
             update == [data EXCEPT !.p = Some(cur), !.o = Some(<<"APPEND">>)]
             applied == apply_update(parser.builder, update)
             after == [parser EXCEPT !.builder = applied.inner]
         IN IF applied.err # NoErr THEN Ret(after, <<Failure(applied.err)>>, TRUE)
            ELSE Ret(after, ChunkFor(cur, data.v), FALSE)

\* The path-less, non-object frame: re-targeted to current_property with the
\* operation forced to APPEND; dropped when no path has been seen yet.
Continuation(parser, data) ==
    IF ~parser.current_property.some THEN Ret(parser, <<>>, FALSE)
    ELSE LET cur == parser.current_property.val
             update == [data EXCEPT !.p = Some(cur), !.o = Some(<<"APPEND">>)]
             applied == apply_update(parser.builder, update)
             after == [parser EXCEPT !.builder = applied.inner]
         IN IF applied.err # NoErr THEN Ret(after, <<Failure(applied.err)>>, TRUE)
            ELSE Ret(after, ChunkFor(cur, data.v), FALSE)

\* Explicit as it would be if the path were not remembered.
ExplicitWithoutTracking(parser, data) ==
    LET path == data.p.val
        applied == apply_update(parser.builder, data)
        after == [parser EXCEPT !.builder = applied.inner]
    IN IF applied.err # NoErr THEN Ret(after, <<Failure(applied.err)>>, TRUE)
       ELSE Ret(after, ChunkFor(path, data.v), FALSE)

\* Explicit as it would be if the chunk carried the text accumulated at the
\* path instead of the text of the frame.
ExplicitYieldingHeld(parser, data) ==
    LET path == data.p.val
        applied == apply_update(parser.builder, data)
        after == [parser EXCEPT !.current_property = Some(path), !.builder = applied.inner]
    IN IF applied.err # NoErr THEN Ret(after, <<Failure(applied.err)>>, TRUE)
       ELSE Ret(after, ChunkFor(path, Sub(applied.inner, Split(path))), FALSE)

\* The frame with an explicit path: it becomes current_property, then is applied.
Explicit(parser, data) ==
    LET path == data.p.val
        applied == apply_update(parser.builder, data)
        after == [parser EXCEPT !.current_property = Some(path), !.builder = applied.inner]
    IN IF applied.err # NoErr THEN Ret(after, <<Failure(applied.err)>>, TRUE)
       ELSE Ret(after, ChunkFor(path, data.v), FALSE)

\* Replace as it would be if a new tree started without a path in hand.
ReplaceForgettingPath(parser, full_value) ==
    IF Sub(full_value, <<K("response")>>) # Absent
    THEN Ret([parser EXCEPT !.builder = full_value, !.current_property = NoneS], <<>>, FALSE)
    ELSE Ret(parser, <<>>, FALSE)

\* Replace as it would be if the value were taken whatever its keys.
ReplaceAlways(parser, full_value) ==
    Ret([parser EXCEPT !.builder = full_value], <<>>, FALSE)

\* Replace as it would be if only the first snapshot were taken.
ReplaceOnce(parser, full_value) ==
    IF Sub(full_value, <<K("response")>>) # Absent
       /\ Sub(parser.builder, <<K("response")>>) = Absent
    THEN Ret([parser EXCEPT !.builder = full_value], <<>>, FALSE)
    ELSE Ret(parser, <<>>, FALSE)

\* The snapshot: a value holding a "response" key becomes the builder's tree
\* (StreamingMessageBuilder::from_value keeps the value as it is), any other
\* is dropped; Ok(None) either way.
Replace(parser, full_value) ==
    IF Sub(full_value, <<K("response")>>) # Absent
    THEN Ret([parser EXCEPT !.builder = full_value], <<>>, FALSE)
    ELSE Ret(parser, <<>>, FALSE)

\* SseParser::process_data_line
process_data_line(parser, data_json) ==
    LET js == JsonParse(data_json)
        upd == ParseUpdate(data_json)
        data == upd.data
        path == IF data.p.some THEN data.p.val ELSE <<>>
        is_new_object == data.v # Absent /\ IsObject(data.v) /\ path = <<>>
    IN CASE IsErrorFrame(js) ->
              Ret(parser, <<Failure(Err("ApiError", Sub(js.val, <<K("content")>>)[<<>>].s))>>, TRUE)
         [] ~IsErrorFrame(js) /\ ~upd.ok ->
              Ret(parser, <<Failure(Err("Json", <<>>))>>, TRUE)
         [] OTHER ->
              IF data.v = Absent /\ ~data.p.some THEN Replace(parser, js.val)
              ELSE IF is_new_object THEN Replace(parser, data.v)
              ELSE IF path = <<>> THEN Continuation(parser, data)
              ELSE Explicit(parser, data)

\* SseParser::finish: the terminal item of a stream.
finish(parser) ==
    IF parser.toast_error.some THEN Failure(Err("ApiError", parser.toast_error.val))
    ELSE LET built == build(parser.builder)
         IN IF built.ok THEN Message(built.msg) ELSE Failure(Err("Build", <<>>))

(***************************************************************************)
(* response_to_chunk_stream (lib.rs): the line decoder                     *)
(***************************************************************************)
\* The stream as it starts: a new parser, an empty buffer, not yet returned.
NewStream == [parser |-> NewParser, buffer |-> <<>>, open |-> TRUE]

HasLine(buffer) == \E i \in 1..Len(buffer) : buffer[i] = NL

\* buffer.iter().position(|&b| b == b'\n')
NewlinePos(buffer) ==
    CHOOSE i \in 1..Len(buffer) : buffer[i] = NL /\ \A k \in 1..(i - 1) : buffer[k] # NL

\* Extend as it would be if each block were decoded on its own, the partial
\* line left in the buffer being dropped.
ExtendReplacing(st, chunk) == [st EXCEPT !.buffer = chunk]

\* buffer.extend_from_slice(&chunk)
Extend(st, chunk) == [st EXCEPT !.buffer = @ \o chunk]

\* TakeLine as it would be if `event: finish` yielded its item without returning.
TakeLineKeepsReading(st) ==
    LET pos == NewlinePos(st.buffer)
        line == SubSeq(st.buffer, 1, pos - 1)
        rest == [st EXCEPT !.buffer = SubSeq(st.buffer, pos + 1, Len(st.buffer))]
        res == process_data_line(st.parser, Tail(line))
    IN CASE line = <<>> -> [st |-> rest, items |-> <<>>]
         [] line = FinishLine -> [st |-> rest, items |-> <<finish(st.parser)>>]
         [] line = ToastLine -> [st |-> rest, items |-> <<>>]
         [] line # <<>> /\ line # FinishLine /\ line # ToastLine /\ line[1] # DataPrefix ->
              [st |-> rest, items |-> <<>>]
         [] OTHER ->
              [st |-> [rest EXCEPT !.parser = res.parser, !.open = ~res.failed],
               items |-> res.items]

\* TakeLine as it would be if a line the stream does not know were an error.
TakeLineRejectingUnknown(st) ==
    LET pos == NewlinePos(st.buffer)
        line == SubSeq(st.buffer, 1, pos - 1)
        rest == [st EXCEPT !.buffer = SubSeq(st.buffer, pos + 1, Len(st.buffer))]
        res == process_data_line(st.parser, Tail(line))
    IN CASE line = <<>> -> [st |-> rest, items |-> <<>>]
         [] line = FinishLine -> [st |-> [rest EXCEPT !.open = FALSE], items |-> <<finish(st.parser)>>]
         [] line = ToastLine -> [st |-> rest, items |-> <<>>]
         [] line # <<>> /\ line # FinishLine /\ line # ToastLine /\ line[1] # DataPrefix ->
              [st |-> [rest EXCEPT !.open = FALSE], items |-> <<Failure(Err("Json", <<>>))>>]
         [] OTHER ->
              [st |-> [rest EXCEPT !.parser = res.parser, !.open = ~res.failed],
               items |-> res.items]

\* One turn of the inner loop: split the first line off the buffer and handle it.
\* [st, items]: the stream afterwards and the item yielded (at most one).
TakeLine(st) ==
    LET pos == NewlinePos(st.buffer)
        line == SubSeq(st.buffer, 1, pos - 1)
        rest == [st EXCEPT !.buffer = SubSeq(st.buffer, pos + 1, Len(st.buffer))]
        res == process_data_line(st.parser, Tail(line))
    IN CASE line = <<>> -> [st |-> rest, items |-> <<>>]
         [] line = FinishLine -> [st |-> [rest EXCEPT !.open = FALSE], items |-> <<finish(st.parser)>>]
         [] line = ToastLine -> [st |-> rest, items |-> <<>>]
         [] line # <<>> /\ line # FinishLine /\ line # ToastLine /\ line[1] # DataPrefix ->
              [st |-> rest, items |-> <<>>]
         [] OTHER ->
              [st |-> [rest EXCEPT !.parser = res.parser, !.open = ~res.failed],
               items |-> res.items]

\* The inner loop run to its end: lines are taken while the buffer holds one
\* and the stream has not returned.  [st, items].
RECURSIVE Drain(_, _)
Drain(st, items) ==
    IF st.open /\ HasLine(st.buffer)
    THEN LET t == TakeLine(st) IN Drain(t.st, items \o t.items)
    ELSE [st |-> st, items |-> items]

\* A whole block received and worked off.
Feed(st, chunk) == Drain(Extend(st, chunk), <<>>)

(***************************************************************************)
(* What the server may send                                                *)
(***************************************************************************)
\* A data payload {"p":..,"v":..,"o":..}; an absent member is left out.
PatchDoc(p, v, o) ==
    Obj({<<"p", IF p.some THEN Scalar(Str(p.val)) ELSE Absent>>,
         <<"v", v>>,
         <<"o", IF o.some THEN Scalar(Str(o.val)) ELSE Absent>>})

\* {"type":"error","content":text}
ErrorDoc(text) == Obj({<<"type", Scalar(Str(<<"error">>))>>, <<"content", Scalar(Str(text))>>})

DataLine(doc) == <<DataPrefix, Json(doc)>>

Text(t) == Scalar(Str(t))
StatusPath == <<"response", "/", "status">>
Incomplete == <<"INCOMPLETE">>

\* {"v":{"response":{"message_id":7,"content":"","status":"INCOMPLETE"}}}
LineIncomplete ==
    DataLine(PatchDoc(NoneS, Obj({<<"response",
        Obj({<<"message_id", Scalar(Num(7))>>, <<"content", Text(<<>>)>>,
             <<"status", Text(Incomplete)>>})>>}), NoneS))
\* {"p":"response/status","v":"INCOMPLETE"}
LineStatusIncomplete == DataLine(PatchDoc(Some(StatusPath), Text(Incomplete), NoneS))
\* {"p":"response/status","v":"FINISHED"}
LineStatusFinished == DataLine(PatchDoc(Some(StatusPath), Text(<<"FINISHED">>), NoneS))
\* {"p":"response/content","v":"Hi"}
LineContentHi == DataLine(PatchDoc(Some(ContentPath), Text(<<"Hi">>), NoneS))
\* {"v":" there"}
LineContinue == DataLine(PatchDoc(NoneS, Text(<<" there">>), NoneS))
\* {"p":"response/thinking_content","v":"Hm","o":"APPEND"}
LineThinking == DataLine(PatchDoc(Some(ThinkingPath), Text(<<"Hm">>), Some(<<"APPEND">>)))
\* {"p":"response/content","v":5}
LineContentNumber == DataLine(PatchDoc(Some(ContentPath), Scalar(Num(5)), NoneS))
\* {"type":"error","content":"boom"}
LineError == DataLine(ErrorDoc(<<"boom">>))
\* data: {oops
LineGarbage == <<DataPrefix, Lit("{oops")>>
\* : keep-alive
LineComment == <<Lit(": keep-alive")>>

(***************************************************************************)
(* DeepSeekAPI::complete_stream (lib.rs): the continuation loop            *)
(***************************************************************************)
\* Blocks the server sends over one run, all streams together.
MaxBlocks == 5

COMPLETION_PATH == "/api/v0/chat/completion"
CONTINUE_PATH == "/api/v0/chat/continue"

VARIABLES
    pc,                           \* where complete_stream stands
    target,                       \* the path of the request being prepared
    message_id_for_continuation,  \* Option<i64>: the identifier captured
    current_stream,               \* the underlying stream: parser, buffer, open
    out,                          \* the items the caller has received, in order
    requests,                     \* the gated requests sent, in order
    streams,                      \* per underlying stream, the items it yielded
    blocks,                       \* blocks received so far
    body,                         \* SpecDecode: the bytes of the response body
    sent,                         \* SpecDecode: how many of them have arrived
    builder_inner,                \* SpecAppend: StreamingMessageBuilder.inner
    append_path,                  \* SpecAppend: the path the updates name
    appended,                     \* SpecAppend: the deltas applied, in order
    append_err,                   \* SpecAppend: the error of the last apply_update
    challenges,                   \* the target paths of the challenges fetched, in order
    solved,                       \* the challenges (by number) handed to solve_challenge
    pow_response,                 \* the token in hand: the number of its challenge, 0 = none
    tokens_used,                  \* per gated request sent, the token attached
    entry,                        \* the method running: complete_stream or continue_stream
    run_pc,                       \* SpecShared: per run, where it stands
    rounds,                       \* SpecShared: per run, the gated requests prepared
    lock,                         \* SpecShared: the run holding the solver's Mutex, 0 = free
    solver_pc,                    \* SpecShared: where solve_challenge stands
    stack_pointer,                \* SpecShared: net adjustment of the module's stack pointer
    status,                       \* SpecShared: the status wasm_solve wrote
    max_attempts,                 \* SpecWait: the argument of wait_for_file_processing
    attempt,                      \* SpecWait: the loop variable
    polled,                       \* SpecWait: what fetch_file_info returned, in order
    wait_pc,                      \* SpecWait: where wait_for_file_processing stands
    wait_result                   \* SpecWait: what it returned

vars == <<pc, target, message_id_for_continuation, current_stream, out, requests,
          streams, blocks, body, sent, builder_inner, append_path, appended,
          append_err, challenges, solved, pow_response, tokens_used, entry, run_pc,
          rounds,
          lock, solver_pc, stack_pointer, status, max_attempts, attempt, polled,
          wait_pc, wait_result>>

\* The proof-of-work bookkeeping of one run, and its values at the start.
tokenVars == <<challenges, solved, pow_response, tokens_used, entry>>
TokenIdle ==
    /\ entry = "complete_stream"
    /\ challenges = <<>>
    /\ solved = <<>>
    /\ pow_response = 0
    /\ tokens_used = <<>>

\* The variables of SpecShared, and their values where no solver is shared.
sharedVars == <<run_pc, rounds, lock, solver_pc, stack_pointer, status>>
SharedIdle ==
    /\ run_pc = <<>>
    /\ rounds = <<>>
    /\ lock = 0
    /\ solver_pc = "Idle"
    /\ stack_pointer = 0
    /\ status = 0

\* The variables of SpecWait, and their values where no file is waited for.
waitVars == <<max_attempts, attempt, polled, wait_pc, wait_result>>
WaitIdle ==
    /\ max_attempts = 0
    /\ attempt = 0
    /\ polled = <<>>
    /\ wait_pc = "Idle"
    /\ wait_result = [kind |-> "none", status |-> ""]

\* The variables of SpecAppend, and their values where no builder stands alone.
appendVars == <<builder_inner, append_path, appended, append_err>>
AppendIdle ==
    /\ builder_inner = DefaultBuilder
    /\ append_path = ContentPath
    /\ appended = <<>>
    /\ append_err = NoErr

\* The values of everything a lone stream leaves alone but its own run.
ElsewhereIdle ==
    /\ AppendIdle
    /\ TokenIdle
    /\ SharedIdle
    /\ WaitIdle

\* What a run of complete_stream leaves alone: the variables of SpecDecode and
\* of SpecAppend.
decodeVars == <<body, sent, appendVars, sharedVars, waitVars>>

Last(seq) == seq[Len(seq)]

\* The lines the server writes in a run of complete_stream.
ServerLines ==
    {LineIncomplete, LineStatusIncomplete, LineStatusFinished, LineContentHi,
     LineContinue, LineThinking, LineContentNumber, LineError, LineGarbage,
     LineComment, FinishLine, ToastLine, <<>>}

\* The blocks the transport delivers: a line with its newline, a line whose
\* newline has not arrived yet, or two lines at once (the error frame with
\* `event: finish` behind it, `event: finish` with a data line behind it).
ServerBlocks ==
    {l \o <<NL>> : l \in ServerLines}
        \cup {FinishLine, LineContentHi}
        \cup {LineError \o <<NL>> \o FinishLine \o <<NL>>,
              FinishLine \o <<NL>> \o LineContentHi \o <<NL>>}

Init ==
    /\ pc = "Challenge"
    /\ target = COMPLETION_PATH
    /\ message_id_for_continuation = NoneLeaf
    /\ current_stream = NewStream
    /\ out = <<>>
    /\ requests = <<>>
    /\ streams = <<>>
    /\ blocks = 0
    /\ body = <<>>
    /\ sent = 0
    /\ ElsewhereIdle

\* `yield Err(e); return;`
Fail(kind) ==
    /\ out' = Append(out, Failure(Err(kind, <<>>)))
    /\ pc' = "Failed"

\* FetchChallenge as it would be if a token in hand were used again.
FetchChallengeCached ==
    /\ pc = "Challenge"
    /\ IF pow_response # 0
       THEN pc' = "Send" /\ out' = out /\ UNCHANGED challenges
       ELSE \/ pc' = "Solve" /\ out' = out /\ challenges' = Append(challenges, target)
            \/ Fail("Transport") /\ UNCHANGED challenges
    /\ UNCHANGED <<target, message_id_for_continuation, current_stream, requests,
                   streams, blocks, solved, pow_response, tokens_used, entry>>
    /\ UNCHANGED decodeVars

\* set_pow_header, first half: the challenge is fetched for `target`.
FetchChallenge ==
    /\ pc = "Challenge"
    /\ \/ pc' = "Solve" /\ out' = out /\ challenges' = Append(challenges, target)
       \/ Fail("Transport") /\ UNCHANGED challenges
    /\ UNCHANGED <<target, message_id_for_continuation, current_stream, requests,
                   streams, blocks, solved, pow_response, tokens_used, entry>>
    /\ UNCHANGED decodeVars

\* Solve as it would be if a failed solve were tried again on a fresh challenge.
SolveRetrying ==
    /\ pc = "Solve"
    /\ solved' = Append(solved, Len(challenges))
    /\ \/ pc' = "Send" /\ out' = out /\ pow_response' = Len(challenges)
       \/ pc' = "Challenge" /\ out' = out /\ UNCHANGED pow_response
    /\ UNCHANGED <<target, message_id_for_continuation, current_stream, requests,
                   streams, blocks, challenges, tokens_used, entry>>
    /\ UNCHANGED decodeVars

\* set_pow_header, second half: pow_solver.lock().await.solve_challenge(challenge)
Solve ==
    /\ pc = "Solve"
    /\ solved' = Append(solved, Len(challenges))
    /\ \/ pc' = "Send" /\ out' = out /\ pow_response' = Len(challenges)
       \/ Fail("Proof") /\ UNCHANGED pow_response
    /\ UNCHANGED <<target, message_id_for_continuation, current_stream, requests,
                   streams, blocks, challenges, tokens_used, entry>>
    /\ UNCHANGED decodeVars

\* Request as it would be if the captured identifier were dropped.
RequestWithoutId == [path |-> target, message_id |-> NoneLeaf]

\* The body of the gated request: the continuation carries the captured id.
Request == [path |-> target, message_id |-> message_id_for_continuation]

\* Send as it would be if a request that failed in transport were sent once
\* more.
SendRetrying ==
    /\ pc = "Send"
    /\ requests' = Append(requests, Request)
    /\ tokens_used' = Append(tokens_used, pow_response)
    /\ \/ /\ pc' = "Streaming"
          /\ message_id_for_continuation' = NoneLeaf
          /\ current_stream' = NewStream
          /\ streams' = Append(streams, <<>>)
          /\ out' = out
       \/ /\ Len(requests) < 3
          /\ pc' = "Send"
          /\ out' = out
          /\ UNCHANGED <<message_id_for_continuation, current_stream, streams>>
       \/ /\ Fail("Status")
          /\ message_id_for_continuation' = NoneLeaf
          /\ UNCHANGED <<current_stream, streams>>
    /\ UNCHANGED <<target, blocks, challenges, solved, pow_response, entry>>
    /\ UNCHANGED decodeVars

\* Send as it would be if the decoder of the stream before were kept for the
\* new response.
SendCarrying ==
    /\ pc = "Send"
    /\ requests' = Append(requests, Request)
    /\ tokens_used' = Append(tokens_used, pow_response)
    /\ message_id_for_continuation' = NoneLeaf
    /\ \/ /\ pc' = "Streaming"
          /\ current_stream' = [current_stream EXCEPT !.open = TRUE]
          /\ streams' = Append(streams, <<>>)
          /\ out' = out
       \/ Fail("Transport") /\ UNCHANGED <<current_stream, streams>>
       \/ Fail("Status") /\ UNCHANGED <<current_stream, streams>>
    /\ UNCHANGED <<target, blocks, challenges, solved, pow_response, entry>>
    /\ UNCHANGED decodeVars

\* client.post(..).send().await, then error_for_status(): on success the
\* response becomes the current stream.
Send ==
    /\ pc = "Send"
    /\ requests' = Append(requests, Request)
    /\ tokens_used' = Append(tokens_used, pow_response)
    /\ message_id_for_continuation' = NoneLeaf
    /\ \/ /\ pc' = "Streaming"
          /\ current_stream' = NewStream
          /\ streams' = Append(streams, <<>>)
          /\ out' = out
       \/ Fail("Transport") /\ UNCHANGED <<current_stream, streams>>
       \/ Fail("Status") /\ UNCHANGED <<current_stream, streams>>
    /\ UNCHANGED <<target, blocks, challenges, solved, pow_response, entry>>
    /\ UNCHANGED decodeVars

\* Yielded as it would be if an error replaced what the stream had yielded.
YieldedRetracting(items) ==
    IF items # <<>> /\ items[1].tag = "Err"
    THEN [streams EXCEPT ![Len(streams)] = items]
    ELSE [streams EXCEPT ![Len(streams)] = @ \o items]

\* The items the current stream yields, appended to what it has yielded.
Yielded(items) == [streams EXCEPT ![Len(streams)] = @ \o items]

\* bytes.next() returns a block: it is appended to the buffer.
RecvBlock ==
    /\ pc = "Streaming"
    /\ current_stream.open
    /\ ~HasLine(current_stream.buffer)
    /\ blocks < MaxBlocks
    /\ \E chunk \in ServerBlocks : current_stream' = Extend(current_stream, chunk)
    /\ blocks' = blocks + 1
    /\ UNCHANGED <<pc, target, message_id_for_continuation, out, requests, streams>>
    /\ UNCHANGED <<decodeVars, tokenVars>>

\* bytes.next() returns an error: the stream yields it and returns, and
\* complete_stream passes it on and returns.
RecvError ==
    /\ pc = "Streaming"
    /\ current_stream.open
    /\ ~HasLine(current_stream.buffer)
    /\ current_stream' = [current_stream EXCEPT !.open = FALSE]
    /\ streams' = Yielded(<<Failure(Err("Transport", <<>>))>>)
    /\ Fail("Transport")
    /\ UNCHANGED <<target, message_id_for_continuation, requests, blocks>>
    /\ UNCHANGED <<decodeVars, tokenVars>>

\* bytes.next() returns None: the body has closed, the stream ends without an
\* item and the inner `while let` of complete_stream is left; the `while let`
\* of continue_stream is its last statement.
RecvEof ==
    /\ pc = "Streaming"
    /\ current_stream.open
    /\ ~HasLine(current_stream.buffer)
    /\ current_stream' = [current_stream EXCEPT !.open = FALSE]
    /\ pc' = IF entry = "complete_stream" THEN "NeedsContinuation" ELSE "Ended"
    /\ UNCHANGED <<target, message_id_for_continuation, out, requests, streams, blocks>>
    /\ UNCHANGED <<decodeVars, tokenVars>>

\* Forward as it would be without the status check: every FinalMessage is
\* forwarded and ends the run.
ForwardUnchecked(item) ==
    /\ out' = Append(out, item)
    /\ pc' = IF IsDelta(item) THEN pc ELSE IF item.tag = "Message" THEN "Complete" ELSE "Failed"
    /\ UNCHANGED message_id_for_continuation

\* Forward as it would be if an INCOMPLETE FinalMessage were yielded before the
\* continuation is started.
ForwardThenContinue(item) ==
    /\ out' = Append(out, item)
    /\ CASE IsDelta(item) -> UNCHANGED <<pc, message_id_for_continuation>>
         [] item.tag = "Message" /\ item.msg.status = Str(Incomplete) ->
               /\ message_id_for_continuation' = item.msg.message_id
               /\ pc' = "NeedsContinuation"
         [] item.tag = "Message" /\ item.msg.status # Str(Incomplete) ->
               pc' = "Complete" /\ UNCHANGED message_id_for_continuation
         [] OTHER -> pc' = "Failed" /\ UNCHANGED message_id_for_continuation

\* What complete_stream does with an item of the current stream (lines 272-283).
Forward(item) ==
    CASE IsDelta(item) ->
            /\ out' = Append(out, item)
            /\ UNCHANGED <<pc, message_id_for_continuation>>
      [] item.tag = "Message" /\ item.msg.status = Str(Incomplete) ->
            /\ message_id_for_continuation' = item.msg.message_id
            /\ pc' = "NeedsContinuation"
            /\ out' = out
      [] item.tag = "Message" /\ item.msg.status # Str(Incomplete) ->
            /\ out' = Append(out, item)
            /\ pc' = "Complete"
            /\ UNCHANGED message_id_for_continuation
      [] OTHER ->
            /\ out' = Append(out, item)
            /\ pc' = "Failed"
            /\ UNCHANGED message_id_for_continuation

\* Relay as it would be if continue_stream looked at the status as
\* complete_stream does and went on after an INCOMPLETE FinalMessage.
RelayContinuing(item) ==
    CASE IsDelta(item) ->
            /\ out' = Append(out, item)
            /\ UNCHANGED <<pc, message_id_for_continuation>>
      [] item.tag = "Message" /\ item.msg.status = Str(Incomplete) ->
            /\ message_id_for_continuation' = item.msg.message_id
            /\ pc' = "NeedsContinuation"
            /\ out' = Append(out, item)
      [] item.tag = "Message" /\ item.msg.status # Str(Incomplete) ->
            /\ out' = Append(out, item)
            /\ pc' = "Complete"
            /\ UNCHANGED message_id_for_continuation
      [] OTHER ->
            /\ out' = Append(out, item)
            /\ pc' = "Failed"
            /\ UNCHANGED message_id_for_continuation

\* `yield chunk;` of continue_stream (line 386): the item is passed on as it is; after a FinalMessage or an
\* error the stream has returned, and so does continue_stream.
Relay(item) ==
    /\ out' = Append(out, item)
    /\ pc' = IF IsDelta(item) THEN pc
             ELSE IF item.tag = "Message" THEN "Complete" ELSE "Failed"
    /\ UNCHANGED message_id_for_continuation

\* The stream takes the next line off its buffer; what it yields is handled by
\* complete_stream, or passed on by continue_stream, at once.
Line ==
    /\ pc = "Streaming"
    /\ current_stream.open
    /\ HasLine(current_stream.buffer)
    /\ LET t == TakeLine(current_stream)
       IN /\ current_stream' = t.st
          /\ streams' = Yielded(t.items)
          /\ IF t.items = <<>>
             THEN UNCHANGED <<pc, message_id_for_continuation, out>>
             ELSE IF entry = "complete_stream" THEN Forward(t.items[1])
             ELSE Relay(t.items[1])
    /\ UNCHANGED <<target, requests, blocks>>
    /\ UNCHANGED <<decodeVars, tokenVars>>

\* Continue as it would be if the loop gave up after the first continuation.
ContinueOnce ==
    /\ pc = "NeedsContinuation"
    /\ IF message_id_for_continuation # NoneLeaf /\ Len(requests) < 2
       THEN pc' = "Challenge" /\ target' = CONTINUE_PATH
       ELSE pc' = "Ended" /\ target' = target
    /\ UNCHANGED <<message_id_for_continuation, current_stream, out, requests,
                   streams, blocks>>
    /\ UNCHANGED <<decodeVars, tokenVars>>

\* Continue as it would be if a continuation were started whenever the stream
\* in hand has come to its end.
ContinueRegardless ==
    /\ pc = "NeedsContinuation"
    /\ pc' = "Challenge" /\ target' = CONTINUE_PATH
    /\ UNCHANGED <<message_id_for_continuation, current_stream, out, requests,
                   streams, blocks>>
    /\ UNCHANGED <<decodeVars, tokenVars>>

\* Line 286: with an identifier captured a continuation is prepared, without
\* one the loop is left and the run ends.
Continue ==
    /\ pc = "NeedsContinuation"
    /\ IF message_id_for_continuation # NoneLeaf
       THEN pc' = "Challenge" /\ target' = CONTINUE_PATH
       ELSE pc' = "Ended" /\ target' = target
    /\ UNCHANGED <<message_id_for_continuation, current_stream, out, requests,
                   streams, blocks>>
    /\ UNCHANGED <<decodeVars, tokenVars>>

Next ==
    \/ FetchChallenge
    \/ Solve
    \/ Send
    \/ RecvBlock
    \/ RecvError
    \/ RecvEof
    \/ Line
    \/ Continue

Spec == Init /\ [][Next]_vars

(***************************************************************************)
(* DeepSeekAPI::continue_stream (lib.rs): one gated request to the         *)
(* continue path for a given message, every item of its stream passed on   *)
(* (Relay).  SpecGated runs either method.                                 *)
(***************************************************************************)
GatedInit ==
    /\ entry \in {"complete_stream", "continue_stream"}
    /\ pc = "Challenge"
    /\ target = IF entry = "complete_stream" THEN COMPLETION_PATH ELSE CONTINUE_PATH
    /\ message_id_for_continuation = IF entry = "complete_stream" THEN NoneLeaf ELSE Num(7)
    /\ current_stream = NewStream
    /\ out = <<>>
    /\ requests = <<>>
    /\ streams = <<>>
    /\ blocks = 0
    /\ body = <<>>
    /\ sent = 0
    /\ challenges = <<>>
    /\ solved = <<>>
    /\ pow_response = 0
    /\ tokens_used = <<>>
    /\ AppendIdle
    /\ SharedIdle
    /\ WaitIdle

SpecGated == GatedInit /\ [][Next]_vars

(***************************************************************************)
(* Properties of complete_stream                                           *)
(***************************************************************************)
IsFinal(item) == item.tag = "Message"
IsIncompleteFinal(item) == IsFinal(item) /\ item.msg.status = Str(Incomplete)
IsTerminal(item) == item.tag \in {"Message", "Err"}
Deltas(items) == SelectSeq(items, IsDelta)

\* The item the current stream yields in this step, as a sequence of 0 or 1.
YieldedNow ==
    IF Len(streams') = Len(streams) /\ Len(streams) > 0
    THEN SubSeq(Last(streams'), Len(Last(streams)) + 1, Len(Last(streams')))
    ELSE <<>>

C1_Step ==
    /\ \A i \in 1..Len(out') : ~IsIncompleteFinal(out'[i])
    /\ pc # "Complete"
    /\ \A i \in 1..Len(YieldedNow) :
          LET item == YieldedNow[i]
          IN /\ IsIncompleteFinal(item) =>
                  /\ pc' = "NeedsContinuation"
                  /\ message_id_for_continuation' = item.msg.message_id
                  /\ out' = out
             /\ IsFinal(item) /\ ~IsIncompleteFinal(item) =>
                  /\ pc' = "Complete"
                  /\ out' = Append(out, item)

RunEnded == pc \in {"Complete", "Failed", "Ended"}

\* C3: a run of complete_stream that has ended has ended in Complete or Failed:
\* the last item the caller received is a FinalMessage or an error, and the run
\* has not ended after only deltas or nothing at all.
C3_EndsInTerminalItem ==
    RunEnded => /\ pc \in {"Complete", "Failed"}
                /\ out # <<>>
                /\ IsTerminal(Last(out))

MessageLast(items) == \A i \in 1..Len(items) : IsFinal(items[i]) => i = Len(items)

\* C4: in the output of complete_stream and of each underlying stream a
\* FinalMessage is the last item: there is at most one, every delta precedes
\* it, and nothing is yielded after it.
C4_FinalMessageLast ==
    /\ MessageLast(out)
    /\ \A k \in 1..Len(streams) : MessageLast(streams[k])

\* A FinalMessage closed an output with deltas while a later line was already
\* in the buffer.
C4_Witness ==
    /\ pc = "Complete"
    /\ Len(out) >= 2
    /\ IsFinal(Last(out))
    /\ current_stream.buffer # <<>>

(***************************************************************************)
(* SpecDecode: one underlying stream (response_to_chunk_stream) reading a  *)
(* response body that is fixed at the start and arrives split into blocks  *)
(* at arbitrary places, inside lines too.                                  *)
(***************************************************************************)
\* Lines in a response body of SpecDecode.
MaxBodyLines == 3

\* What complete_stream owns and a lone stream leaves alone.
runVars == <<pc, target, message_id_for_continuation, out, requests, blocks, appendVars,
            tokenVars, sharedVars, waitVars>>

DecodeLines ==
    {LineContentHi, LineContinue, LineThinking, LineContentNumber, LineError,
     LineGarbage, FinishLine, ToastLine, <<>>}

\* Lines written one after the other, each closed by its newline.
RECURSIVE Join(_)
Join(lines) == IF lines = <<>> THEN <<>> ELSE Head(lines) \o <<NL>> \o Join(Tail(lines))

\* The bodies: up to MaxBodyLines lines, the last with or without its newline.
Bodies ==
    LET seqs == UNION {[1..k -> DecodeLines] : k \in 0..MaxBodyLines}
    IN {Join(ls) : ls \in seqs}
         \cup {SubSeq(Join(ls), 1, Len(Join(ls)) - 1) : ls \in seqs \ {<<>>}}

DecodeInit ==
    /\ body \in Bodies
    /\ sent = 0
    /\ current_stream = NewStream
    /\ streams = <<<<>>>>
    /\ pc = "Streaming"
    /\ target = COMPLETION_PATH
    /\ message_id_for_continuation = NoneLeaf
    /\ out = <<>>
    /\ requests = <<>>
    /\ blocks = 0
    /\ ElsewhereIdle

\* bytes.next() returns the next block: any number of the bytes still to come.
DecodeRecv ==
    /\ current_stream.open
    /\ ~HasLine(current_stream.buffer)
    /\ \E n \in 1..(Len(body) - sent) :
          /\ current_stream' = Extend(current_stream, SubSeq(body, sent + 1, sent + n))
          /\ sent' = sent + n
    /\ UNCHANGED <<body, streams>>
    /\ UNCHANGED runVars

\* The stream takes the next line off its buffer and yields what it derives.
DecodeLine ==
    /\ current_stream.open
    /\ HasLine(current_stream.buffer)
    /\ LET t == TakeLine(current_stream)
       IN /\ current_stream' = t.st
          /\ streams' = Yielded(t.items)
    /\ UNCHANGED <<body, sent>>
    /\ UNCHANGED runVars

\* DecodeEof as it would be if the end of the body stood for `event: finish`.
DecodeEofFinishing ==
    /\ current_stream.open
    /\ ~HasLine(current_stream.buffer)
    /\ sent = Len(body)
    /\ current_stream' = [current_stream EXCEPT !.open = FALSE]
    /\ streams' = Yielded(<<finish(current_stream.parser)>>)
    /\ UNCHANGED <<body, sent>>
    /\ UNCHANGED runVars

\* DecodeEof as it would be if the bytes left in the buffer were taken as a
\* last line when the body closes.
DecodeEofFlushing ==
    /\ current_stream.open
    /\ ~HasLine(current_stream.buffer)
    /\ sent = Len(body)
    /\ LET t == TakeLine(Extend(current_stream, <<NL>>))
       IN /\ current_stream' = [t.st EXCEPT !.open = FALSE]
          /\ streams' = Yielded(t.items)
    /\ UNCHANGED <<body, sent>>
    /\ UNCHANGED runVars

\* bytes.next() returns None once the whole body has arrived: the stream ends.
DecodeEof ==
    /\ current_stream.open
    /\ ~HasLine(current_stream.buffer)
    /\ sent = Len(body)
    /\ current_stream' = [current_stream EXCEPT !.open = FALSE]
    /\ UNCHANGED <<body, sent, streams>>
    /\ UNCHANGED runVars

DecodeNext ==
    \/ DecodeRecv
    \/ DecodeLine
    \/ DecodeEof

SpecDecode == DecodeInit /\ [][DecodeNext]_vars

(***************************************************************************)
(* Properties of one stream (SpecDecode)                                   *)
(***************************************************************************)
\* The bytes the line loop has taken off the buffer so far.
Consumed == sent - Len(current_stream.buffer)

\* `line` stands in the body as a whole line whose newline is byte i.
LineEndsAt(line, i) ==
    /\ i \in 1..Len(body)
    /\ body[i] = NL
    /\ i > Len(line)
    /\ SubSeq(body, i - Len(line), i - 1) = line
    /\ (i - Len(line) = 1 \/ body[i - Len(line) - 1] = NL)

\* The bytes before that line, and the stream that has read exactly those.
Before(line, i) == SubSeq(body, 1, i - Len(line) - 1)
RunBefore(line, i) == Feed(NewStream, Before(line, i))

\* The line whose newline is byte i has been taken off the buffer by a stream
\* that had not returned before it.
Processed(line, i) ==
    /\ LineEndsAt(line, i)
    /\ Consumed >= i
    /\ RunBefore(line, i).st.open

\* The body with the line that ends at byte i cut out.
Without(line, i) == Before(line, i) \o SubSeq(body, i + 1, Len(body))

ItemsNow == streams[1]
ApiError(text) == Failure(Err("ApiError", text))

\* C5 (Scenario C): once the frame {"type":"error","content":"boom"} has been
\* processed, the stream has returned with an error carrying "boom" as its
\* last item and holds no FinalMessage, whatever was applied before it and
\* whatever follows it in the body (an `event: finish` in the same bytes too).
C5_ErrorFrameAborts ==
    \A i \in 1..Len(body) :
       Processed(LineError, i) =>
          /\ ItemsNow # <<>>
          /\ Last(ItemsNow) = ApiError(<<"boom">>)
          /\ \A k \in 1..Len(ItemsNow) : ~IsFinal(ItemsNow[k])
          /\ ~current_stream.open
          /\ Consumed = i

\* The error frame came after a delivered delta and `event: finish` lies
\* behind it in the buffer.
C5_Witness ==
    /\ \E i \in 1..Len(body) : Processed(LineError, i)
    /\ Len(ItemsNow) >= 2
    /\ \E k \in 1..(Len(current_stream.buffer) - 1) :
          SubSeq(current_stream.buffer, k, k + 1) = FinishLine

\* C6: a server-reported error does not retract delivered chunks.  Once the
\* error frame has been processed, what the stream has yielded is exactly the
\* chunks of the lines before it, in order, and then one error item; those
\* chunks are deltas, and they are the ones a stream yields first for the same
\* body without the error frame.
C6_ErrorKeepsDelivered ==
    \A i \in 1..Len(body) :
       Processed(LineError, i) =>
          LET before == RunBefore(LineError, i).items
              clean == Feed(NewStream, Without(LineError, i)).items
          IN /\ ItemsNow = before \o <<ApiError(<<"boom">>)>>
             /\ \A k \in 1..Len(before) : IsDelta(before[k])
             /\ Len(clean) >= Len(before)
             /\ SubSeq(clean, 1, Len(before)) = before

\* Two deltas were delivered, then the error frame was processed.
C6_Witness ==
    /\ \E i \in 1..Len(body) : Processed(LineError, i)
    /\ Len(ItemsNow) = 3
    /\ IsDelta(ItemsNow[1]) /\ IsDelta(ItemsNow[2])

\* C7 as claimed: once `event: finish` has been processed the stream has
\* yielded, after the chunks of the lines before it, exactly one terminal item
\* and that item is the FinalMessage built from the tree; the stream has
\* returned and nothing behind the line has been parsed or has touched the tree.
C7_FinishYieldsFinalMessage ==
    \A i \in 1..Len(body) :
       Processed(FinishLine, i) =>
          LET before == RunBefore(FinishLine, i)
          IN /\ ItemsNow = before.items \o <<Message(build(before.st.parser.builder).msg)>>
             /\ ~current_stream.open
             /\ Consumed = i
             /\ current_stream.parser = before.st.parser

\* C7 (Finish precedence), amended: once `event: finish` has been processed the
\* stream has yielded, after the chunks of the lines before it, exactly one
\* terminal item: the FinalMessage built from the tree when the tree reads as
\* a Message, the build error when it does not.  The stream has returned, and
\* no later line, buffered or yet to arrive, is parsed, mutates the tree or
\* produces a chunk.
C7_FinishPrecedence ==
    \A i \in 1..Len(body) :
       Processed(FinishLine, i) =>
          LET before == RunBefore(FinishLine, i)
              built == build(before.st.parser.builder)
              terminal == IF built.ok THEN Message(built.msg) ELSE Failure(Err("Build", <<>>))
          IN /\ ItemsNow = before.items \o <<terminal>>
             /\ \A k \in 1..Len(before.items) : ~IsTerminal(before.items[k])
             /\ ~current_stream.open
             /\ Consumed = i
             /\ current_stream.parser = before.st.parser

\* `event: finish` was processed after a delta, with a later line of the same
\* block left in the buffer.
C7_Witness ==
    /\ \E i \in 1..Len(body) : Processed(FinishLine, i)
    /\ Len(ItemsNow) >= 2
    /\ IsFinal(Last(ItemsNow))
    /\ HasLine(current_stream.buffer)

\* C8 (chunk-boundary independence): however the bytes received so far were
\* split into blocks, the stream yields, once it has worked off its buffer,
\* what a stream yields that receives the same bytes as one block; and a stream
\* that has ended has yielded what a stream yields that receives the whole
\* body as one block.
C8_BoundaryIndependence ==
    /\ Drain(current_stream, ItemsNow).items = Feed(NewStream, SubSeq(body, 1, sent)).items
    /\ ~current_stream.open => ItemsNow = Feed(NewStream, body).items

\* A block ended inside a line after a chunk had been yielded: the partial
\* line waits in the buffer for the rest of the body.
C8_Witness ==
    /\ current_stream.open
    /\ ItemsNow # <<>>
    /\ current_stream.buffer # <<>>
    /\ ~HasLine(current_stream.buffer)
    /\ sent < Len(body)

(***************************************************************************)
(* SseParser::process_data_line, frame by frame (SpecFrames): one stream   *)
(* whose blocks are whole data lines, the path-less ones with every value  *)
(* and operation name.                                                     *)
(***************************************************************************)
\* Data lines a stream of SpecFrames receives.
MaxFrames == 3

\* "p" of a path-less frame: the field missing, or the empty string.
PathLess == {NoneS, Some(<<>>)}
\* "o" of a path-less frame: missing, SET, or a name apply_update does not know.
OpNames == {NoneS, Some(<<"SET">>), Some(<<"BOGUS">>)}
\* "v" of a path-less frame: a text, a number, null.
NonObjectValues == {Text(<<" there">>), Scalar(Num(5)), Scalar(Null)}

PathLessLines ==
    {DataLine(PatchDoc(pth, v, o)) : pth \in PathLess, v \in NonObjectValues, o \in OpNames}
ExplicitLines ==
    {LineContentHi, LineThinking, LineContentNumber, LineStatusFinished, LineIncomplete}

FramesInit ==
    /\ body = <<>>
    /\ sent = 0
    /\ current_stream = NewStream
    /\ streams = <<<<>>>>
    /\ pc = "Streaming"
    /\ target = COMPLETION_PATH
    /\ message_id_for_continuation = NoneLeaf
    /\ out = <<>>
    /\ requests = <<>>
    /\ blocks = 0
    /\ ElsewhereIdle

\* bytes.next() returns the next block: one data line with its newline.
FrameRecv ==
    /\ current_stream.open
    /\ ~HasLine(current_stream.buffer)
    /\ Len(body) < MaxFrames * 3
    /\ \E line \in PathLessLines \cup ExplicitLines :
          /\ current_stream' = Extend(current_stream, line \o <<NL>>)
          /\ body' = body \o line \o <<NL>>
          /\ sent' = Len(body')
    /\ UNCHANGED streams
    /\ UNCHANGED runVars

\* The line loop of the stream is DecodeLine.
FramesNext ==
    \/ FrameRecv
    \/ DecodeLine

SpecFrames == FramesInit /\ [][FramesNext]_vars

\* The step in which the stream, its current_property being P, takes the
\* path-less frame {p: pth, v: v, o: o} off its buffer leaves the parser (tree
\* and current_property), yields the item and fails or not exactly as
\* process_data_line does for the frame {p: P, o: APPEND, v: v}.
ActsAsAppend(pth, v, o) ==
    (/\ current_stream.parser.current_property.some
     /\ current_stream.buffer = DataLine(PatchDoc(pth, v, o)) \o <<NL>>
     /\ current_stream'.buffer = <<>>)
    => LET P == current_stream.parser.current_property.val
           explicit == process_data_line(current_stream.parser,
                           <<Json(PatchDoc(Some(P), v, Some(<<"APPEND">>)))>>)
       IN /\ current_stream'.parser = explicit.parser
          /\ streams'[1] = streams[1] \o explicit.items
          /\ current_stream'.open = ~explicit.failed

\* C9 as claimed: after an explicit-path frame with path P, a frame with empty
\* or absent path and any non-object value v (a text, a number, null), whatever
\* operation name it carries, behaves as the frame {path: P, op: APPEND,
\* value: v}: same tree, same current_property, same chunk or same error.
C9_AnyNonObjectValue ==
    [][\A pth \in PathLess, v \in NonObjectValues, o \in OpNames : ActsAsAppend(pth, v, o)]_vars

\* C9 (Continuation inference), amended: after an explicit-path frame with
\* path P, a frame with empty or absent path and a non-object value v,
\* whatever operation name it carries, behaves as the frame {path: P,
\* op: APPEND, value: v} (same tree, same current_property, same chunk or same
\* error), except the frame with absent path and value null, which reads as a
\* frame with neither path nor value and is ignored.
C9_ContinuationInference ==
    [][\A pth \in PathLess, v \in NonObjectValues, o \in OpNames :
          (pth # NoneS \/ v # Scalar(Null)) => ActsAsAppend(pth, v, o)]_vars

\* {"p":"response/content","v":"Hi"} then {"v":" there","o":"BOGUS"}: the
\* second frame was appended to the content and yielded its delta.
C9_Witness ==
    /\ body = LineContentHi \o <<NL>>
                \o DataLine(PatchDoc(NoneS, Text(<<" there">>), Some(<<"BOGUS">>))) \o <<NL>>
    /\ current_stream.buffer = <<>>
    /\ ItemsNow = <<Content(<<"Hi">>), Content(<<" there">>)>>
    /\ Sub(current_stream.parser.builder, Split(ContentPath)) = Text(<<"Hi", " there">>)

\* The patch frames of SpecFrames by their fields: the explicit-path lines and
\* the path-less ones.
PatchFrames ==
    {[p |-> Some(ContentPath), v |-> Text(<<"Hi">>), o |-> NoneS],
     [p |-> Some(ThinkingPath), v |-> Text(<<"Hm">>), o |-> Some(<<"APPEND">>)],
     [p |-> Some(ContentPath), v |-> Scalar(Num(5)), o |-> NoneS],
     [p |-> Some(StatusPath), v |-> Text(<<"FINISHED">>), o |-> NoneS]}
       \cup [p : PathLess, v : NonObjectValues, o : OpNames]

\* C13 (chunk derivation): the step in which a stream takes a patch frame and
\* applies it (the stream goes on) yields zero or one chunk, decided by the
\* frame's effective path (its own path, or current_property when it has
\* none): a text at the content path yields ContentDelta with that text, a
\* text at the thinking path ThinkingDelta with that text, never the text
\* accumulated in the tree; any other path or value yields nothing.  The tree
\* is mutated all the same: the effective path then holds the value (SET) or
\* what it held with the text appended (APPEND, and every continuation).
C13_ChunkDerivation ==
    [][\A f \in PatchFrames :
          (/\ current_stream.buffer = DataLine(PatchDoc(f.p, f.v, f.o)) \o <<NL>>
           /\ current_stream'.buffer = <<>>
           /\ current_stream'.open
           /\ f.p # NoneS \/ f.v # Scalar(Null)
           /\ f.p \in PathLess => current_stream.parser.current_property.some)
          => LET pathless == f.p \in PathLess
                 eff == IF pathless THEN current_stream.parser.current_property.val
                        ELSE f.p.val
                 textual == f.v[<<>>].t = "str"
                 chunk == CASE textual /\ eff = ContentPath -> <<Content(f.v[<<>>].s)>>
                            [] textual /\ eff = ThinkingPath -> <<Thinking(f.v[<<>>].s)>>
                            [] OTHER -> <<>>
                 appends == pathless \/ f.o = Some(<<"APPEND">>)
                 held == Sub(current_stream.parser.builder, Split(eff))
                 text == IF held = Absent THEN <<>> ELSE held[<<>>].s
             IN /\ streams'[1] = streams[1] \o chunk
                /\ Sub(current_stream'.parser.builder, Split(eff)) =
                      IF appends THEN Text(text \o f.v[<<>>].s) ELSE f.v]_vars

\* {"p":"response/thinking_content","v":"Hm","o":"APPEND"} then {"p":"","v":" there"}:
\* the second frame yielded its own text while the tree holds both.
C13_Witness ==
    /\ body = LineThinking \o <<NL>>
                \o DataLine(PatchDoc(Some(<<>>), Text(<<" there">>), NoneS)) \o <<NL>>
    /\ current_stream.buffer = <<>>
    /\ ItemsNow = <<Thinking(<<"Hm">>), Thinking(<<" there">>)>>
    /\ Sub(current_stream.parser.builder, Split(ThinkingPath)) = Text(<<"Hm", " there">>)

\* The frames of SpecFrames that reach apply_update as APPEND: the explicit
\* APPEND frame and every path-less frame.
AppendFrames == {f \in PatchFrames : f.p \in PathLess \/ f.o = Some(<<"APPEND">>)}

\* C25 (APPEND type mismatch): the step in which a stream takes a frame that
\* is applied as APPEND (an explicit APPEND, or a path-less frame while
\* current_property is set) fails whenever the value held at the final segment
\* is not a string or the operand is not a string: the stream yields exactly
\* one item, the error, no chunk, and ends, so nothing (no FinalMessage)
\* follows.  A number as operand or as held value is a type mismatch at the
\* path; the operand null fails as a frame without value.  When both are
\* strings, or the final segment is absent and the operand is a string, the
\* stream goes on and the path holds the held text (none when absent) with the
\* operand appended.
C25_AppendTypeMismatch ==
    [][/\ ~current_stream.open => UNCHANGED streams
       /\ \A f \in AppendFrames :
          (/\ current_stream.buffer = DataLine(PatchDoc(f.p, f.v, f.o)) \o <<NL>>
           /\ current_stream'.buffer = <<>>
           /\ f.p # NoneS \/ f.v # Scalar(Null)
           /\ f.p \in PathLess => current_stream.parser.current_property.some)
          => LET eff == IF f.p \in PathLess
                        THEN current_stream.parser.current_property.val
                        ELSE f.p.val
                 held == Sub(current_stream.parser.builder, Split(eff))
                 text == IF held = Absent THEN <<>> ELSE held[<<>>].s
                 fits == IsString(f.v) /\ (held = Absent \/ IsString(held))
                 yielded == SubSeq(streams'[1], Len(streams[1]) + 1, Len(streams'[1]))
             IN IF fits
                THEN /\ current_stream'.open
                     /\ \A i \in DOMAIN yielded : yielded[i].tag # "Err"
                     /\ Sub(current_stream'.parser.builder, Split(eff)) =
                           Text(text \o f.v[<<>>].s)
                ELSE /\ ~current_stream'.open
                     /\ Len(yielded) = 1
                     /\ yielded[1].tag = "Err"
                     /\ f.v # Scalar(Null)
                          => yielded[1] = Failure(Err("TypeMismatch", eff))]_vars

\* {"p":"response/content","v":5} then {"v":" there"}: the text was appended to
\* a number, the stream yielded the type mismatch and nothing else, and ended.
C25_Witness ==
    /\ body = LineContentNumber \o <<NL>>
                \o DataLine(PatchDoc(NoneS, Text(<<" there">>), NoneS)) \o <<NL>>
    /\ current_stream.buffer = <<>>
    /\ ~current_stream.open
    /\ ItemsNow = <<Failure(Err("TypeMismatch", ContentPath))>>

(***************************************************************************)
(* StreamingMessageBuilder::apply_update, APPEND after APPEND (SpecAppend):*)
(* a builder whose tree does not hold the path takes APPEND updates with   *)
(* text deltas at that path.                                               *)
(***************************************************************************)
\* APPEND updates applied to one builder.
MaxAppends == 3

AppendDeltas == {<<>>, <<"a">>, <<"b">>}
AppendPaths == {ContentPath, ThinkingPath, StatusPath, <<"content">>, <<"a", "/", "b", "/", "c">>}
\* Trees a builder can hold (from_value takes any value): {}, {"response":{}},
\* {"response":{"role":"ASSISTANT"}}, {"response":"x"}.
StartTrees ==
    {Scalar(EObj),
     Obj({<<"response", Scalar(EObj)>>}),
     Obj({<<"response", Obj({<<"role", Text(<<"ASSISTANT">>)>>})>>}),
     Obj({<<"response", Text(<<"x">>)>>})}

AppendInit ==
    /\ builder_inner \in StartTrees
    /\ append_path \in AppendPaths
    /\ Sub(builder_inner, Split(append_path)) = Absent
    /\ appended = <<>>
    /\ append_err = NoErr
    /\ TokenIdle
    /\ SharedIdle
    /\ WaitIdle
    /\ pc = "Ended"
    /\ target = COMPLETION_PATH
    /\ message_id_for_continuation = NoneLeaf
    /\ current_stream = NewStream
    /\ out = <<>>
    /\ requests = <<>>
    /\ streams = <<>>
    /\ blocks = 0
    /\ body = <<>>
    /\ sent = 0

\* builder.apply_update(&StreamingUpdate { p: path, o: "APPEND", v: delta })
AppendDelta ==
    /\ Len(appended) < MaxAppends
    /\ append_err = NoErr
    /\ \E d \in AppendDeltas :
          LET applied == apply_update(builder_inner,
                             [p |-> Some(append_path), v |-> Text(d), o |-> Some(<<"APPEND">>)])
          IN /\ builder_inner' = applied.inner
             /\ append_err' = applied.err
             /\ appended' = Append(appended, d)
    /\ UNCHANGED <<pc, target, message_id_for_continuation, current_stream, out,
                   requests, streams, blocks, body, sent, append_path>>
    /\ UNCHANGED <<tokenVars, sharedVars, waitVars>>

SpecAppend == AppendInit /\ [][AppendDelta]_vars

RECURSIVE Concat(_)
Concat(texts) == IF texts = <<>> THEN <<>> ELSE Head(texts) \o Concat(Tail(texts))

\* After N >= 1 APPEND updates the path holds the concatenation of the deltas
\* and no update failed.
HoldsConcatenation ==
    appended # <<>> =>
       /\ append_err = NoErr
       /\ Sub(builder_inner, Split(append_path)) = Text(Concat(appended))

\* The path names the field of Message that build() reads it into.
NamesField ==
    LET keys == Split(append_path)
        top == Sub(builder_inner, <<K("response")>>) = Absent
    IN \/ Len(keys) = 2 /\ keys[1] = K("response") /\ Len(keys[2]) = 1
          /\ keys[2][1] \in DOMAIN FieldKind
       \/ Len(keys) = 1 /\ top /\ Len(keys[1]) = 1 /\ keys[1][1] \in DOMAIN FieldKind
FieldName == Last(Split(append_path))[1]

\* C10 as claimed: N APPEND updates with deltas d1..dN at a path the tree did
\* not hold leave d1+...+dN at that path, and for N = 0 the built Message
\* reads the empty string there.
C10_EmptyStringForNone ==
    /\ HoldsConcatenation
    /\ (appended = <<>> /\ NamesField /\ build(builder_inner).ok)
          => build(builder_inner).msg[FieldName] = Str(<<>>)

\* C10 (APPEND accumulation), amended: N APPEND updates with text deltas
\* d1..dN at a path the tree did not hold leave exactly d1+...+dN at that
\* path; for N = 0 the path stays absent, and a Message built from the tree
\* reads the empty string for `content` and no value for an optional field
\* (thinking_content, status, role).
C10_AppendAccumulation ==
    /\ HoldsConcatenation
    /\ appended = <<>> =>
          /\ Sub(builder_inner, Split(append_path)) = Absent
          /\ (NamesField /\ build(builder_inner).ok) =>
                build(builder_inner).msg[FieldName] =
                   IF FieldName = "content" THEN Str(<<>>) ELSE NoneLeaf

\* Two different non-empty deltas were appended, under a parent the walk had
\* to create.
C10_Witness ==
    /\ Len(appended) >= 2
    /\ appended[1] = <<"a">>
    /\ appended[2] = <<"b">>
    /\ append_path = ThinkingPath
    /\ build(builder_inner).ok
    /\ build(builder_inner).msg.thinking_content = Str(Concat(appended))

(***************************************************************************)
(* The snapshot frame (SpecReplace): one stream whose blocks are whole     *)
(* data lines, patches and snapshots in any order.                         *)
(***************************************************************************)
\* Data lines a stream of SpecReplace receives.
MaxReplaceFrames == 3

\* Objects holding a `response` that reads as a Message, each with the Message
\* it spells out:
\*   {"response":{"content":""}}
\*   {"response":{"message_id":7,"content":"","status":"INCOMPLETE"}}
\*   {"response":{"content":"new","role":"ASSISTANT"},"other":"x"}
Snapshots ==
    {[doc |-> Obj({<<"response", Obj({<<"content", Text(<<>>)>>})>>}),
      msg |-> DefaultMessage],
     [doc |-> Obj({<<"response",
                     Obj({<<"message_id", Scalar(Num(7))>>, <<"content", Text(<<>>)>>,
                          <<"status", Text(Incomplete)>>})>>}),
      msg |-> [DefaultMessage EXCEPT !.message_id = Num(7), !.status = Str(Incomplete)]],
     [doc |-> Obj({<<"response",
                     Obj({<<"content", Text(<<"new">>)>>,
                          <<"role", Text(<<"ASSISTANT">>)>>})>>,
                   <<"other", Text(<<"x">>)>>}),
      msg |-> [DefaultMessage EXCEPT !.content = Str(<<"new">>),
                                     !.role = Str(<<"ASSISTANT">>)]]}
\* "o" of a snapshot frame.
SnapshotOps == {NoneS, Some(<<"APPEND">>)}

SnapshotLines ==
    {DataLine(PatchDoc(pth, snap.doc, o)) : pth \in PathLess, snap \in Snapshots, o \in SnapshotOps}
PriorLines == {LineContentHi, LineContinue, LineThinking, LineStatusIncomplete, LineContentNumber}

\* bytes.next() returns the next block: one data line with its newline.
ReplaceRecv ==
    /\ current_stream.open
    /\ ~HasLine(current_stream.buffer)
    /\ Len(body) < MaxReplaceFrames * 3
    /\ \E line \in PriorLines \cup SnapshotLines :
          /\ current_stream' = Extend(current_stream, line \o <<NL>>)
          /\ body' = body \o line \o <<NL>>
          /\ sent' = Len(body')
    /\ UNCHANGED streams
    /\ UNCHANGED runVars

ReplaceNext ==
    \/ ReplaceRecv
    \/ DecodeLine

SpecReplace == FramesInit /\ [][ReplaceNext]_vars

\* C11 (whole-tree replace then build): the step in which a stream, whatever
\* its tree held, takes a frame with empty or absent path whose value is an
\* object O with a `response` key leaves O as the tree and yields nothing, and
\* build() then gives the Message that O's `response` spells out: nothing of
\* the earlier tree survives.
C11_ReplaceThenBuild ==
    [][\A pth \in PathLess, snap \in Snapshots, o \in SnapshotOps :
          (/\ current_stream.buffer = DataLine(PatchDoc(pth, snap.doc, o)) \o <<NL>>
           /\ current_stream'.buffer = <<>>)
          => /\ current_stream'.parser.builder = snap.doc
             /\ build(current_stream'.parser.builder) = [ok |-> TRUE, msg |-> snap.msg]
             /\ current_stream'.open
             /\ streams' = streams]_vars

\* A tree that held "Hi there" as content and a thinking text was replaced by
\* {"response":{"content":""}}.
C11_Witness ==
    /\ body = LineContentHi \o <<NL>> \o LineThinking \o <<NL>>
                \o DataLine(PatchDoc(Some(<<>>), Obj({<<"response", Obj({<<"content", Text(<<>>)>>})>>}),
                                     Some(<<"APPEND">>))) \o <<NL>>
    /\ current_stream.buffer = <<>>
    /\ build(current_stream.parser.builder) = [ok |-> TRUE, msg |-> DefaultMessage]
    /\ Len(ItemsNow) = 2

(***************************************************************************)
(* Scenario A (SpecScenarioA): the body of the scenario, arriving split    *)
(* into blocks at arbitrary places.                                        *)
(***************************************************************************)
\* {"v":{"response":{"content":""}}}
LineSnapshotEmpty ==
    DataLine(PatchDoc(NoneS, Obj({<<"response", Obj({<<"content", Text(<<>>)>>})>>}), NoneS))
\* {"p":"","v":" there","o":"APPEND"}
LineAppendThere == DataLine(PatchDoc(Some(<<>>), Text(<<" there">>), Some(<<"APPEND">>)))

\* Lines that are not frames: a blank line, a comment, `event: toast`.  A body
\* of the scenario holds at most one of them before each of its four lines.
Gaps == {<<>>} \cup {<<l>> : l \in {<<>>, LineComment, ToastLine}}
ScenarioABodies ==
    {Join(g[1] \o <<LineSnapshotEmpty>> \o g[2] \o <<LineContentHi>>
             \o g[3] \o <<LineAppendThere>> \o g[4] \o <<FinishLine>>) : g \in [1..4 -> Gaps]}

ScenarioAInit ==
    /\ body \in ScenarioABodies
    /\ sent = 0
    /\ current_stream = NewStream
    /\ streams = <<<<>>>>
    /\ pc = "Streaming"
    /\ target = COMPLETION_PATH
    /\ message_id_for_continuation = NoneLeaf
    /\ out = <<>>
    /\ requests = <<>>
    /\ blocks = 0
    /\ ElsewhereIdle

\* The body ends with `event: finish`, at which the stream returns: bytes.next()
\* never comes to return None.
ScenarioANext ==
    \/ DecodeRecv
    \/ DecodeLine

SpecScenarioA == ScenarioAInit /\ [][ScenarioANext]_vars

ScenarioAItems ==
    <<Content(<<"Hi">>), Content(<<" there">>),
      Message([DefaultMessage EXCEPT !.content = Str(<<"Hi", " there">>)])>>

\* C12 (Scenario A): the stream yields ContentDelta("Hi"), ContentDelta(" there")
\* and the FinalMessage with content "Hi there", in that order and nothing
\* else: what it has yielded is always a prefix of these three items, all
\* three once `event: finish` has been taken, and it has then returned.
C12_ScenarioA ==
    /\ Len(ItemsNow) <= 3
    /\ ItemsNow = SubSeq(ScenarioAItems, 1, Len(ItemsNow))
    /\ Consumed = Len(body) => ItemsNow = ScenarioAItems /\ ~current_stream.open
    /\ ~current_stream.open => ItemsNow = ScenarioAItems

\* The whole body has been read and the three items have been yielded.
C12_Witness ==
    /\ sent = Len(body)
    /\ ~current_stream.open
    /\ Len(ItemsNow) = 3
    /\ IsFinal(ItemsNow[3])

(***************************************************************************)
(* POWSolver::solve_challenge behind the shared Mutex (SpecShared): runs   *)
(* of complete_stream on clones of one DeepSeekAPI, which share the        *)
(* solver (Arc<Mutex<POWSolver>>), interleaved at will.                    *)
(***************************************************************************)
\* Runs sharing the solver, and gated requests one run prepares.
MaxRuns == 2
MaxRounds == 2

Runs == 1..MaxRuns

SharedInit ==
    /\ run_pc = [r \in Runs |-> "Challenge"]
    /\ rounds = [r \in Runs |-> 1]
    /\ lock = 0
    /\ solver_pc = "Idle"
    /\ stack_pointer = 0
    /\ status = 0
    /\ pc = "Ended"
    /\ target = COMPLETION_PATH
    /\ message_id_for_continuation = NoneLeaf
    /\ current_stream = NewStream
    /\ out = <<>>
    /\ requests = <<>>
    /\ streams = <<>>
    /\ blocks = 0
    /\ body = <<>>
    /\ sent = 0
    /\ AppendIdle
    /\ TokenIdle
    /\ WaitIdle

\* What the steps of SpecShared leave alone.
soloVars == <<pc, target, message_id_for_continuation, current_stream, out, requests,
              streams, blocks, body, sent, appendVars, tokenVars, waitVars>>

\* set_pow_header of run r: the challenge is fetched and parsed, or the fetch fails.
SharedFetch(r) ==
    /\ run_pc[r] = "Challenge"
    /\ \E next \in {"Lock", "Failed"} : run_pc' = [run_pc EXCEPT ![r] = next]
    /\ UNCHANGED <<rounds, lock, solver_pc, stack_pointer, status>>
    /\ UNCHANGED soloVars

\* SharedLock as it would be if the solver were not behind a Mutex.
SharedLockUnguarded(r) ==
    /\ run_pc[r] = "Lock"
    /\ lock' = r
    /\ run_pc' = [run_pc EXCEPT ![r] = "Solving"]
    /\ UNCHANGED <<rounds, solver_pc, stack_pointer, status>>
    /\ UNCHANGED soloVars

\* pow_solver.lock().await of run r: the guard is handed out when the Mutex is free.
SharedLock(r) ==
    /\ run_pc[r] = "Lock"
    /\ lock = 0
    /\ lock' = r
    /\ run_pc' = [run_pc EXCEPT ![r] = "Solving"]
    /\ UNCHANGED <<rounds, solver_pc, stack_pointer, status>>
    /\ UNCHANGED soloVars

\* Return as it would be if the guard outlived a failed call.
ReturnHoldingOnError(ok) ==
    /\ solver_pc' = "Idle"
    /\ run_pc' = [run_pc EXCEPT ![lock] = IF ok THEN "Send" ELSE "Failed"]
    /\ lock' = IF ok THEN 0 ELSE lock

\* solve_challenge returns to the run holding the guard; the guard, a temporary
\* of the statement, is dropped.
Return(ok) ==
    /\ solver_pc' = "Idle"
    /\ run_pc' = [run_pc EXCEPT ![lock] = IF ok THEN "Send" ELSE "Failed"]
    /\ lock' = 0

\* add_stack.call(-16): the scratch region is reserved.
Reserve ==
    /\ lock # 0
    /\ run_pc[lock] = "Solving"
    /\ solver_pc = "Idle"
    /\ stack_pointer' = stack_pointer - 16
    /\ solver_pc' = "Reserved"
    /\ UNCHANGED <<run_pc, rounds, lock, status>>
    /\ UNCHANGED soloVars

\* write_str_to_memory(&challenge.challenge)?: alloc succeeds or fails.
WriteChallenge ==
    /\ solver_pc = "Reserved"
    /\ \/ solver_pc' = "ChallengeWritten" /\ UNCHANGED <<run_pc, lock>>
       \/ Return(FALSE)
    /\ UNCHANGED <<rounds, stack_pointer, status>>
    /\ UNCHANGED soloVars

\* write_str_to_memory(&prefix)?: alloc succeeds or fails.
WritePrefix ==
    /\ solver_pc = "ChallengeWritten"
    /\ \/ solver_pc' = "PrefixWritten" /\ UNCHANGED <<run_pc, lock>>
       \/ Return(FALSE)
    /\ UNCHANGED <<rounds, stack_pointer, status>>
    /\ UNCHANGED soloVars

\* wasm_solve.call(..)?: the module writes a status, or the call fails.
WasmSolve ==
    /\ solver_pc = "PrefixWritten"
    /\ \/ /\ \E st \in {0, 1} : status' = st
          /\ solver_pc' = "Solved"
          /\ UNCHANGED <<run_pc, lock>>
       \/ Return(FALSE) /\ UNCHANGED status
    /\ UNCHANGED <<rounds, stack_pointer>>
    /\ UNCHANGED soloVars

\* The status is read: add_stack.call(16), then the bail on status 0 or the token.
ReadStatus ==
    /\ solver_pc = "Solved"
    /\ stack_pointer' = stack_pointer + 16
    /\ Return(status # 0)
    /\ UNCHANGED <<rounds, status>>
    /\ UNCHANGED soloVars

\* The gated request of run r is sent: a response arrives, or the send fails.
SharedSend(r) ==
    /\ run_pc[r] = "Send"
    /\ \E next \in {"Streaming", "Failed"} : run_pc' = [run_pc EXCEPT ![r] = next]
    /\ UNCHANGED <<rounds, lock, solver_pc, stack_pointer, status>>
    /\ UNCHANGED soloVars

\* The stream of run r ends: with a FinalMessage, with an error, or with an
\* INCOMPLETE FinalMessage, after which the run prepares a continuation.
SharedRead(r) ==
    /\ run_pc[r] = "Streaming"
    /\ \/ /\ \E next \in {"Complete", "Failed"} : run_pc' = [run_pc EXCEPT ![r] = next]
          /\ UNCHANGED rounds
       \/ /\ rounds[r] < MaxRounds
          /\ run_pc' = [run_pc EXCEPT ![r] = "Challenge"]
          /\ rounds' = [rounds EXCEPT ![r] = @ + 1]
    /\ UNCHANGED <<lock, solver_pc, stack_pointer, status>>
    /\ UNCHANGED soloVars

SharedNext ==
    \/ \E r \in Runs : SharedFetch(r)
    \/ \E r \in Runs : SharedLock(r)
    \/ Reserve
    \/ WriteChallenge
    \/ WritePrefix
    \/ WasmSolve
    \/ ReadStatus
    \/ \E r \in Runs : SharedSend(r)
    \/ \E r \in Runs : SharedRead(r)

SpecShared == SharedInit /\ [][SharedNext]_vars

\* C14: whenever no call of solve_challenge is under way, the net adjustment
\* of the module's stack pointer is zero: every 16-byte reservation has been
\* reversed, whether the call ended in a token or in any failure.
C14_StackPointerRestored == solver_pc = "Idle" => stack_pointer = 0

\* C15: at most one run is inside solve_challenge at any time, and a run holds
\* the solver's lock only while it is in the solve step: never while its
\* challenge fetch, its gated request or its stream read is in flight (nor
\* once it has ended).
C15_SolveSerialized ==
    /\ Cardinality({r \in Runs : run_pc[r] = "Solving"}) <= 1
    /\ \A r \in Runs : lock = r <=> run_pc[r] = "Solving"
    /\ solver_pc # "Idle" => lock # 0

\* One run is in the middle of solve_challenge while another waits for the lock
\* with its challenge fetched, or reads its stream.
C15_Witness ==
    \E r1, r2 \in Runs :
       /\ run_pc[r1] = "Solving"
       /\ solver_pc = "PrefixWritten"
       /\ run_pc[r2] = "Lock"
       /\ rounds[r2] = 2

(***************************************************************************)
(* Properties of the proof-of-work gate (Spec, SpecGated)                  *)
(***************************************************************************)
\* C16: a failure to obtain a proof token is fatal for the current request.
\* The step in which the challenge fetch or the solve fails, in the first
\* iteration or in a continuation, issues no gated request, yields exactly one
\* error and leaves the run in Failed; and a failed run takes no further step:
\* no retry of the solve, no request, no item.
C16_ProofFailureFatal ==
    [][/\ (pc \in {"Challenge", "Solve"} /\ pc' \notin {"Solve", "Send"})
            => /\ pc' = "Failed"
               /\ requests' = requests
               /\ tokens_used' = tokens_used
               /\ Len(out') = Len(out) + 1
               /\ SubSeq(out', 1, Len(out)) = out
               /\ Last(out').tag = "Err"
       /\ pc # "Failed"]_vars

\* The solve failed in a continuation, after a delta of the first stream had
\* been passed on: one request was sent, two challenges were fetched.
C16_Witness ==
    /\ pc = "Failed"
    /\ Last(out).err.kind = "Proof"
    /\ Len(out) >= 2
    /\ Len(requests) = 1
    /\ Len(challenges) = 2
    /\ solved = <<1, 2>>

\* C17: proof tokens are per-request and single-use.  The i-th gated request of
\* a run carries the token of the i-th challenge, which was fetched for the
\* path of that request (the completion path for the first request of
\* complete_stream, the continue path for every other) after the request
\* before it was sent; challenges are solved once each, in the order fetched,
\* and no token is attached to two requests.
C17_TokenPerRequest ==
    LET n == Len(requests)
    IN /\ Len(tokens_used) = n
       /\ Len(challenges) \in {n, n + 1}
       /\ Len(solved) <= Len(challenges)
       /\ Len(solved) >= n
       /\ \A i \in 1..Len(solved) : solved[i] = i
       /\ \A i \in 1..n :
             /\ tokens_used[i] = i
             /\ challenges[i] = requests[i].path
             /\ requests[i].path = IF entry = "complete_stream" /\ i = 1
                                   THEN COMPLETION_PATH ELSE CONTINUE_PATH

\* complete_stream has sent its completion request and one continuation, each
\* with the token of its own challenge.
C17_Witness ==
    /\ entry = "complete_stream"
    /\ Len(requests) = 2
    /\ tokens_used = <<1, 2>>
    /\ challenges = <<COMPLETION_PATH, CONTINUE_PATH>>
    /\ pc = "Streaming"

(***************************************************************************)
(* A stream and its continuation (SpecCarry): complete_stream reads a      *)
(* first response that ends in an INCOMPLETE FinalMessage, asks for the    *)
(* continuation and reads that response.  The bytes of either response     *)
(* arrive split into blocks at arbitrary places.  The consumer's side      *)
(* (out) is left aside: streams holds what each stream yields.             *)
(***************************************************************************)
\* Lines in the body of the continuation's response.
MaxCarryLines == 2

\* Bodies of a first response that ends in an INCOMPLETE FinalMessage: the
\* snapshot with the identifier, up to two deltas, `event: finish`, and bytes
\* behind it that stay in the buffer.
FirstDeltas == {LineContentHi, LineThinking, LineContinue}
FirstBodies ==
    {Join(<<LineIncomplete>> \o ds \o <<FinishLine>>) \o rest :
        ds \in UNION {[1..k -> FirstDeltas] : k \in 0..2},
        rest \in {<<>>, LineContentHi, LineContinue \o <<NL>>}}

CarryLines == {LineContentHi, LineContinue, LineThinking, LineStatusFinished, FinishLine}
CarryBodies ==
    LET seqs == UNION {[1..k -> CarryLines] : k \in 0..MaxCarryLines}
    IN {Join(ls) : ls \in seqs}

\* The first request has been sent and its response is about to be read.
CarryInit ==
    /\ pc = "Streaming"
    /\ entry = "complete_stream"
    /\ target = COMPLETION_PATH
    /\ message_id_for_continuation = NoneLeaf
    /\ current_stream = NewStream
    /\ streams = <<<<>>>>
    /\ out = <<>>
    /\ requests = <<[path |-> COMPLETION_PATH, message_id |-> NoneLeaf]>>
    /\ challenges = <<COMPLETION_PATH>>
    /\ solved = <<1>>
    /\ pow_response = 1
    /\ tokens_used = <<1>>
    /\ blocks = 0
    /\ body \in FirstBodies
    /\ sent = 0
    /\ AppendIdle
    /\ SharedIdle
    /\ WaitIdle

\* The steps of the stream in hand.
CarryRecv == pc = "Streaming" /\ DecodeRecv
CarryLine == pc = "Streaming" /\ DecodeLine
CarryEof == pc = "Streaming" /\ DecodeEof

\* Lines 275-288: the first stream has yielded an INCOMPLETE FinalMessage with
\* an identifier, so the inner loop is left and the continuation is prepared.
\* The bytes the server will answer it with are fixed here.
CarryContinue ==
    /\ pc = "Streaming"
    /\ Len(streams) = 1
    /\ streams[1] # <<>>
    /\ IsIncompleteFinal(Last(streams[1]))
    /\ Last(streams[1]).msg.message_id # NoneLeaf
    /\ pc' = "Challenge"
    /\ target' = CONTINUE_PATH
    /\ message_id_for_continuation' = Last(streams[1]).msg.message_id
    /\ body' \in CarryBodies
    /\ sent' = 0
    /\ UNCHANGED <<current_stream, out, requests, streams, blocks, appendVars,
                   tokenVars, sharedVars, waitVars>>

CarryNext ==
    \/ CarryRecv
    \/ CarryLine
    \/ CarryEof
    \/ CarryContinue
    \/ FetchChallenge
    \/ Solve
    \/ Send

SpecCarry == CarryInit /\ [][CarryNext]_vars

\* C18: no decoder state is carried across a continuation.  The new stream
\* starts with an empty buffer, an empty tree and no current_property, and
\* whatever the stream before it left behind, what it yields is what a fresh
\* decoder yields for the bytes it has received: the chunks and the
\* FinalMessage of the continuation depend on its bytes alone.
C18_NoCarriedState ==
    Len(streams) = 2 =>
       /\ (sent = 0 /\ current_stream.open) => current_stream = NewStream
       /\ Drain(current_stream, streams[2]).items = Feed(NewStream, SubSeq(body, 1, sent)).items
       /\ ~current_stream.open => streams[2] = Feed(NewStream, body).items

\* The first stream had a content path in hand and bytes left in its buffer;
\* the continuation stream took a path-less frame and `event: finish`.
C18_Witness ==
    /\ Len(streams) = 2
    /\ Len(streams[1]) > 1
    /\ streams[1][Len(streams[1]) - 1].tag = "Content"
    /\ body = LineContinue \o <<NL>> \o FinishLine \o <<NL>>
    /\ ~current_stream.open
    /\ Len(streams[2]) = 1
    /\ IsFinal(streams[2][1])

(***************************************************************************)
(* Requests of a run of complete_stream (Spec)                             *)
(***************************************************************************)
\* The FinalMessages with status "INCOMPLETE" the run has received so far.
Incompletes ==
    Cardinality({ik \in UNION {{<<i, k>> : k \in 1..Len(streams[i])} : i \in 1..Len(streams)} :
                    IsIncompleteFinal(streams[ik[1]][ik[2]])})

\* An error has been yielded to the caller.
ErrYielded == \E k \in 1..Len(out) : out[k].tag = "Err"

\* C19 as stated, read at the end of a run that has issued a request and has
\* ended in Complete or Failed: the number of gated requests issued equals one
\* plus the number of FinalMessages with status "INCOMPLETE" received.
C19_RequestCountEqual ==
    (pc \in {"Complete", "Failed"} /\ requests # <<>>) => Len(requests) = 1 + Incompletes

\* C19: there are no automatic retries.  The number of gated requests issued
\* never exceeds one plus the number of FinalMessages with status "INCOMPLETE"
\* received so far, and equals it when a request has just been issued; once an
\* error has been yielded to the caller the run issues no further request and
\* yields no further item.
C19_NoRetries ==
    [][/\ Len(requests') <= 1 + Incompletes'
       /\ requests' # requests =>
             /\ Len(requests') = Len(requests) + 1
             /\ Len(requests') = 1 + Incompletes'
       /\ ErrYielded => requests' = requests /\ out' = out]_vars

\* The continuation's stream failed: two requests for one INCOMPLETE
\* FinalMessage, the error as the last item, the run at rest.
C19_Witness ==
    /\ Len(requests) = 2
    /\ Incompletes = 1
    /\ Len(streams) = 2
    /\ streams[2] # <<>>
    /\ Last(streams[2]).tag = "Err"
    /\ Last(out).tag = "Err"
    /\ pc = "Failed"

(***************************************************************************)
(* Network calls of a run of complete_stream (Spec)                        *)
(***************************************************************************)
\* The network call the run is waiting on: the challenge fetch inside
\* set_pow_header, the gated request, or bytes.next() of the response body.
InFlight ==
    {call \in {"fetch", "request", "read"} :
        \/ call = "fetch" /\ pc = "Challenge"
        \/ call = "request" /\ pc = "Send"
        \/ call = "read" /\ pc = "Streaming" /\ current_stream.open
                         /\ ~HasLine(current_stream.buffer)}

\* The stream in hand has produced its FinalMessage and is read no more.
PreviousStreamDone ==
    /\ ~current_stream.open
    /\ Last(streams) # <<>>
    /\ IsFinal(Last(Last(streams)))

\* C20: within one run at most one network call is in flight.  A step that
\* completes a challenge fetch sends no request and reads no body, a step that
\* sends a request fetches no challenge and reads no body, and a step that
\* reads from a body does neither; while a continuation's challenge is fetched
\* and solved and its request is sent, the previous stream has produced its
\* FinalMessage and is not read.
C20_OneCallInFlight ==
    [][/\ Cardinality(InFlight') <= 1
       /\ challenges' # challenges =>
             /\ InFlight = {"fetch"}
             /\ requests' = requests /\ current_stream' = current_stream /\ blocks' = blocks
       /\ requests' # requests =>
             /\ InFlight = {"request"}
             /\ challenges' = challenges /\ blocks' = blocks
             /\ current_stream' \in {current_stream, NewStream}
       /\ blocks' # blocks =>
             /\ InFlight = {"read"}
             /\ challenges' = challenges /\ requests' = requests
       /\ (pc' \in {"Challenge", "Solve", "Send"} /\ streams' # <<>>) =>
             /\ target' = CONTINUE_PATH
             /\ PreviousStreamDone'
             /\ current_stream' = current_stream]_vars

\* The challenge of a continuation has been fetched while bytes of the
\* previous response were still in the buffer, unread.
C20_Witness ==
    /\ pc = "Solve"
    /\ Len(challenges) = 2
    /\ Len(streams) = 1
    /\ IsIncompleteFinal(Last(streams[1]))
    /\ current_stream.buffer # <<>>

(***************************************************************************)
(* complete_stream over underlying streams taken by the items they yield   *)
(* (SpecLive): each response ends in `event: finish`, so its stream yields *)
(* deltas and then a FinalMessage.  The caller keeps polling and every     *)
(* awaited call returns, so a step that can be taken is taken.             *)
(***************************************************************************)
\* Continuations the server asks for before it sends a message that is not
\* INCOMPLETE.
MaxContinuations == 3

\* Deltas a stream yields before its FinalMessage.
MaxDeltas == 1

\* What current_stream.next() may return: a delta, an INCOMPLETE FinalMessage
\* with an identifier, or a FinalMessage with another status or none.
LiveMessages ==
    {[DefaultMessage EXCEPT !.message_id = Num(7), !.status = Str(Incomplete)],
     [DefaultMessage EXCEPT !.message_id = Num(7), !.status = Str(<<"FINISHED">>)],
     [DefaultMessage EXCEPT !.content = Str(<<"Hi">>)]}
LiveItems == {Content(<<"Hi">>), Thinking(<<"Hm">>)} \cup {Message(m) : m \in LiveMessages}

\* Lines 271-283: current_stream.next() returns Some(Ok(item)) and the match
\* handles it; after a FinalMessage the stream has returned.
LiveYield ==
    /\ pc = "Streaming"
    /\ current_stream.open
    /\ \E item \in LiveItems :
          /\ IsDelta(item) => Len(Last(streams)) < MaxDeltas
          /\ IsIncompleteFinal(item) => Len(requests) <= MaxContinuations
          /\ current_stream' = [current_stream EXCEPT !.open = IsDelta(item)]
          /\ streams' = Yielded(<<item>>)
          /\ Forward(item)
    /\ UNCHANGED <<target, requests, blocks>>
    /\ UNCHANGED <<decodeVars, tokenVars>>

LiveNext ==
    \/ FetchChallenge
    \/ Solve
    \/ Send
    \/ LiveYield
    \/ RecvError
    \/ RecvEof
    \/ Continue

SpecLive == Init /\ [][LiveNext]_vars /\ WF_vars(LiveNext)

\* The run has yielded a FinalMessage that is not INCOMPLETE and has ended,
\* one request after the first for every INCOMPLETE FinalMessage received.
Completed ==
    /\ pc = "Complete"
    /\ out # <<>>
    /\ IsFinal(Last(out))
    /\ ~IsIncompleteFinal(Last(out))
    /\ Last(out) = Last(Last(streams))
    /\ Len(requests) = 1 + Incompletes

\* A fetch, a solve or a request has failed, or a stream has ended without
\* `event: finish`.
HypothesisBroken ==
    \/ /\ pc = "Failed"
       /\ Last(out).tag = "Err"
       /\ Last(out).err.kind \in {"Proof", "Transport", "Status"}
    \/ /\ pc = "Ended"
       /\ \A k \in 1..Len(Last(streams)) : ~IsFinal(Last(streams)[k])

OkMessage(m) == [ok |-> TRUE, msg |-> m, err |-> NoErr]
ErrResult(e) == [ok |-> FALSE, msg |-> DefaultMessage, err |-> e]
NoFinalMessage == Err("Context", <<"No final message received">>)

\* complete as it would be if a run without a FinalMessage gave the default
\* Message.
RECURSIVE completeOrDefault(_)
completeOrDefault(items) ==
    IF items = <<>> THEN OkMessage(DefaultMessage)
    ELSE CASE items[1].tag = "Err" -> ErrResult(items[1].err)
           [] items[1].tag = "Message" -> OkMessage(items[1].msg)
           [] OTHER -> completeOrDefault(Tail(items))

\* The loop of complete over the items of complete_stream: `chunk?` returns
\* the error, a Message breaks the loop, deltas are passed over, and
\* final_message.context(..) turns None into an error.
RECURSIVE complete(_)
complete(items) ==
    IF items = <<>> THEN ErrResult(NoFinalMessage)
    ELSE CASE items[1].tag = "Err" -> ErrResult(items[1].err)
           [] items[1].tag = "Message" -> OkMessage(items[1].msg)
           [] OTHER -> complete(Tail(items))

\* The places of the FinalMessages and of the errors in what the run yielded.
FinalsIn(items) == {i \in 1..Len(items) : IsFinal(items[i])}
ErrorsIn(items) == {i \in 1..Len(items) : items[i].tag = "Err"}
Least(S) == CHOOSE i \in S : \A j \in S : i <= j

\* C22: complete returns what complete_stream ends with.  Over every ended run:
\* it returns Ok(m) exactly when the run yielded a FinalMessage m before any
\* error, and m is that message; it returns the first error the run yielded
\* when there is no FinalMessage before it; it returns an error, never a
\* default or partial Message, when the run ended without a FinalMessage; and
\* the deltas make no difference to what it returns.
C22_CompleteReturns ==
    RunEnded =>
       LET r == complete(out)
           F == FinalsIn(out)
           E == ErrorsIn(out)
           FinalFirst == F # {} /\ \A i \in E : Least(F) < i
       IN /\ r.ok <=> FinalFirst
          /\ FinalFirst => r = OkMessage(out[Least(F)].msg)
          /\ (E # {} /\ ~FinalFirst) => r = ErrResult(out[Least(E)].err)
          /\ F = {} => ~r.ok /\ r.err # NoErr
          /\ (F = {} /\ E = {}) => r = ErrResult(NoFinalMessage)
          /\ r = complete(SelectSeq(out, IsTerminal))

\* A run that ended after deltas alone: complete returns the error.
C22_Witness ==
    /\ pc = "Ended"
    /\ out # <<>>
    /\ \A i \in 1..Len(out) : IsDelta(out[i])
    /\ complete(out) = ErrResult(NoFinalMessage)

(***************************************************************************)
(* DeepSeekAPI::wait_for_file_processing (lib.rs): polling a file's status *)
(* (SpecWait)                                                              *)
(***************************************************************************)
\* The largest max_attempts a caller passes.
MaxAttempts == 4

\* What a poll gives: fetch_file_info fails, or returns the file's info with
\* one of these statuses.
Statuses == {"SUCCESS", "ERROR", "PENDING", "PARSING"}
Polls == {[ok |-> FALSE, status |-> ""]} \cup {[ok |-> TRUE, status |-> st] : st \in Statuses}

\* Result<FileInfo>, or the panic of unreachable!()
WaitOk(st) == [kind |-> "Ok", status |-> st]
WaitErr(kind) == [kind |-> kind, status |-> ""]

WaitInit ==
    /\ max_attempts \in 0..MaxAttempts
    /\ attempt = 0
    /\ polled = <<>>
    /\ wait_pc = "Loop"
    /\ wait_result = [kind |-> "none", status |-> ""]
    /\ pc = "Ended"
    /\ target = COMPLETION_PATH
    /\ message_id_for_continuation = NoneLeaf
    /\ current_stream = NewStream
    /\ out = <<>>
    /\ requests = <<>>
    /\ streams = <<>>
    /\ blocks = 0
    /\ body = <<>>
    /\ sent = 0
    /\ AppendIdle
    /\ TokenIdle
    /\ SharedIdle

\* What the steps of SpecWait leave alone.
restVars == <<pc, target, message_id_for_continuation, current_stream, out, requests,
              streams, blocks, body, sent, appendVars, tokenVars, sharedVars>>

\* `for attempt in 0..max_attempts`: the next attempt, or, with the range
\* used up, the statement after the loop: unreachable!().
WaitLoop ==
    /\ wait_pc = "Loop"
    /\ IF attempt < max_attempts
       THEN wait_pc' = "Fetch" /\ wait_result' = wait_result
       ELSE wait_pc' = "Panicked" /\ wait_result' = WaitErr("panic")
    /\ UNCHANGED <<max_attempts, attempt, polled>>
    /\ UNCHANGED restVars

\* WaitFetch as it would be if the last attempt slept before giving up.
WaitFetchSleepingLast ==
    /\ wait_pc = "Fetch"
    /\ \E poll \in Polls :
          /\ polled' = Append(polled, poll)
          /\ CASE ~poll.ok ->
                    wait_pc' = "Returned" /\ wait_result' = WaitErr("Fetch")
               [] poll.ok /\ poll.status = "SUCCESS" ->
                    wait_pc' = "Returned" /\ wait_result' = WaitOk(poll.status)
               [] poll.ok /\ poll.status = "ERROR" ->
                    wait_pc' = "Returned" /\ wait_result' = WaitErr("Processing")
               [] OTHER ->
                    IF attempt = max_attempts
                    THEN wait_pc' = "Returned" /\ wait_result' = WaitErr("TimedOut")
                    ELSE wait_pc' = "Sleep" /\ wait_result' = wait_result
    /\ UNCHANGED <<max_attempts, attempt>>
    /\ UNCHANGED restVars

\* fetch_file_info(file_id).await? and the match on info.status.
WaitFetch ==
    /\ wait_pc = "Fetch"
    /\ \E poll \in Polls :
          /\ polled' = Append(polled, poll)
          /\ CASE ~poll.ok ->
                    wait_pc' = "Returned" /\ wait_result' = WaitErr("Fetch")
               [] poll.ok /\ poll.status = "SUCCESS" ->
                    wait_pc' = "Returned" /\ wait_result' = WaitOk(poll.status)
               [] poll.ok /\ poll.status = "ERROR" ->
                    wait_pc' = "Returned" /\ wait_result' = WaitErr("Processing")
               [] OTHER ->
                    IF attempt = max_attempts - 1
                    THEN wait_pc' = "Returned" /\ wait_result' = WaitErr("TimedOut")
                    ELSE wait_pc' = "Sleep" /\ wait_result' = wait_result
    /\ UNCHANGED <<max_attempts, attempt>>
    /\ UNCHANGED restVars

\* tokio::time::sleep(delay).await returns and the loop goes round.
WaitSleep ==
    /\ wait_pc = "Sleep"
    /\ attempt' = attempt + 1
    /\ wait_pc' = "Loop"
    /\ UNCHANGED <<max_attempts, polled, wait_result>>
    /\ UNCHANGED restVars

WaitNext ==
    \/ WaitLoop
    \/ WaitFetch
    \/ WaitSleep

SpecWait == WaitInit /\ [][WaitNext]_vars

\* The first poll that failed or gave SUCCESS or ERROR, 0 if there is none.
Decisive(polls) ==
    LET D == {i \in 1..Len(polls) : ~polls[i].ok \/ polls[i].status \in {"SUCCESS", "ERROR"}}
    IN IF D = {} THEN 0 ELSE Least(D)

\* C23: wait_for_file_processing returns a value and never panics, for every
\* max_attempts >= 0 and every sequence of polled statuses: Ok with the file
\* info at the first poll whose status is SUCCESS, an error at the first poll
\* whose status is ERROR, the error of fetch_file_info as soon as a poll
\* fails, and an error when max_attempts polls have given none of these.
C23_WaitReturns ==
    /\ wait_pc # "Panicked"
    /\ wait_pc = "Returned" =>
          LET d == Decisive(polled)
          IN /\ d \in {0, Len(polled)}
             /\ d = 0 => wait_result = WaitErr("TimedOut") /\ Len(polled) = max_attempts
             /\ (d > 0 /\ ~polled[d].ok) => wait_result = WaitErr("Fetch")
             /\ (d > 0 /\ polled[d].ok /\ polled[d].status = "SUCCESS") =>
                   wait_result = WaitOk("SUCCESS")
             /\ (d > 0 /\ polled[d].ok /\ polled[d].status = "ERROR") =>
                   wait_result = WaitErr("Processing")
    /\ wait_pc \in {"Fetch", "Sleep"} => Decisive(polled) = 0 /\ Len(polled) < max_attempts

\* C23 but for the call with max_attempts = 0.
C23_ReturnsFromOneAttemptOn ==
    max_attempts >= 1 => C23_WaitReturns

\* C33 (wait_for_file_processing is bounded): called with max_attempts >= 1
\* it polls at most max_attempts times; every sleep lies between two polls
\* (`attempt` counts the sleeps done: one per poll made before the current
\* one, a sleep is only begun when another poll is still to come, and none
\* follows the last poll); and when max_attempts polls have come back, all with
\* a status other than SUCCESS and ERROR, it has returned the timed-out error
\* without a further step.
C33_BoundedPolling ==
    max_attempts >= 1 =>
       /\ Len(polled) <= max_attempts
       /\ wait_pc # "Panicked"
       /\ wait_pc \in {"Loop", "Fetch"} => attempt = Len(polled) /\ Len(polled) < max_attempts
       /\ wait_pc = "Sleep" => attempt = Len(polled) - 1 /\ Len(polled) < max_attempts
       /\ wait_pc = "Returned" => attempt = Len(polled) - 1
       /\ (Len(polled) = max_attempts /\ Decisive(polled) = 0) =>
             wait_pc = "Returned" /\ wait_result = WaitErr("TimedOut")

\* Three polls of a call with max_attempts = 3 came back PENDING: two sleeps
\* were made and the call has timed out.
C33_Witness ==
    /\ max_attempts = 3
    /\ Len(polled) = 3
    /\ Decisive(polled) = 0
    /\ attempt = 2
    /\ wait_result = WaitErr("TimedOut")

(***************************************************************************)
(* Frames with and without a path (SpecPaths): one stream whose blocks are *)
(* whole lines: patches with a path, continuations, object-valued frames,  *)
(* bare payloads, an error frame and lines that are not frames.            *)
(***************************************************************************)
\* Lines a stream of SpecPaths receives.
MaxPathFrames == 3

\* Object values: one with a `response` key, one without, the empty object.
ObjectDocs ==
    {Obj({<<"response", Obj({<<"content", Text(<<"new">>)>>})>>, <<"other", Text(<<"x">>)>>}),
     Obj({<<"other", Text(<<"x">>)>>}),
     Obj({})}
HasResponse(doc) == Sub(doc, <<K("response")>>) # Absent

\* {"v":O} and {"p":"","v":O}
ObjectLine(pth, doc) == DataLine(PatchDoc(pth, doc, NoneS))
ObjectLines == {ObjectLine(pth, doc) : pth \in PathLess, doc \in ObjectDocs}

\* Payloads with neither "p" nor "v" that are not the error frame: the object
\* itself, and {"o":"SET"}.
BareDocs == ObjectDocs \cup {Obj({<<"o", Text(<<"SET">>)>>})}
BareLines == {DataLine(doc) : doc \in BareDocs}

\* {"p":"response/status","v":"x","o":"BOGUS"}
LineBogus == DataLine(PatchDoc(Some(StatusPath), Text(<<"x">>), Some(<<"BOGUS">>)))

PathsLines ==
    {LineContentHi, LineThinking, LineStatusIncomplete, LineBogus, LineContinue, LineError,
     <<>>, LineComment, ToastLine}
        \cup ObjectLines \cup BareLines

NewlinesIn(bytes) == Cardinality({i \in 1..Len(bytes) : bytes[i] = NL})

\* bytes.next() returns the next block: one line with its newline.
PathsRecv ==
    /\ current_stream.open
    /\ ~HasLine(current_stream.buffer)
    /\ NewlinesIn(body) < MaxPathFrames
    /\ \E line \in PathsLines :
          /\ current_stream' = Extend(current_stream, line \o <<NL>>)
          /\ body' = body \o line \o <<NL>>
          /\ sent' = Len(body')
    /\ UNCHANGED streams
    /\ UNCHANGED runVars

PathsNext ==
    \/ PathsRecv
    \/ DecodeLine

SpecPaths == FramesInit /\ [][PathsNext]_vars

\* The step in which the stream takes `line`, the only line in its buffer.
Takes(line) ==
    /\ current_stream.buffer = line \o <<NL>>
    /\ current_stream'.buffer = <<>>

\* The step leaves the stream open, yields nothing and keeps ActivePath; the
\* tree becomes `doc` if that holds a `response` key and is kept otherwise.
SnapshotStep(doc) ==
    /\ current_stream'.open
    /\ streams' = streams
    /\ current_stream'.parser.current_property = current_stream.parser.current_property
    /\ current_stream'.parser.builder =
          IF HasResponse(doc) THEN doc ELSE current_stream.parser.builder

\* C24 as stated: a frame with empty or absent path whose value is an object
\* replaces the entire tree with that object, for every object value and every
\* prior tree; it emits no chunk and leaves ActivePath unchanged.
C24_EveryObjectReplaces ==
    [][\A pth \in PathLess, doc \in ObjectDocs :
          Takes(ObjectLine(pth, doc)) =>
             /\ current_stream'.parser.builder = doc
             /\ streams' = streams
             /\ current_stream'.parser.current_property = current_stream.parser.current_property]_vars

\* C24 (whole-tree replace): a frame with empty or absent path whose value is
\* an object holding a `response` key replaces the entire tree with that
\* object, whatever the tree was; an object value without that key leaves the
\* tree as it is; either way the frame emits no chunk and leaves ActivePath
\* unchanged.
C24_WholeTreeReplace ==
    [][\A pth \in PathLess, doc \in ObjectDocs :
          Takes(ObjectLine(pth, doc)) => SnapshotStep(doc)]_vars

\* A tree holding "Hi" with the content path in hand was replaced.
C24_Witness ==
    /\ body = LineContentHi \o <<NL>> \o ObjectLine(Some(<<>>), CHOOSE d \in ObjectDocs : HasResponse(d)) \o <<NL>>
    /\ current_stream.buffer = <<>>
    /\ current_stream.parser.builder \in ObjectDocs
    /\ current_stream.parser.current_property = Some(ContentPath)
    /\ Len(ItemsNow) = 1

\* The complete lines of `bytes`, in order.
RECURSIVE LinesOf(_)
LinesOf(bytes) ==
    IF ~HasLine(bytes) THEN <<>>
    ELSE LET i == NewlinePos(bytes)
         IN <<SubSeq(bytes, 1, i - 1)>> \o LinesOf(SubSeq(bytes, i + 1, Len(bytes)))

\* The path a line names, if it is a data line whose payload has a non-empty
\* "p".
ExplicitPathOf(line) ==
    IF Len(line) = 2 /\ line[1] = DataPrefix /\ ~IsErrorFrame(JsonParse(<<line[2]>>))
    THEN LET upd == ParseUpdate(<<line[2]>>)
         IN IF upd.ok /\ upd.data.p.some /\ upd.data.p.val # <<>> THEN upd.data.p ELSE NoneS
    ELSE NoneS

\* The path of the last of `lines` that names one.
RECURSIVE MostRecentPath(_)
MostRecentPath(lines) ==
    IF lines = <<>> THEN NoneS
    ELSE IF ExplicitPathOf(Last(lines)).some THEN ExplicitPathOf(Last(lines))
    ELSE MostRecentPath(SubSeq(lines, 1, Len(lines) - 1))

\* C29 (ActivePath): at every point of a stream ActivePath is the path of the
\* most recent frame with a non-empty path among the lines taken so far, and
\* unset before the first such frame; continuations, whole-tree replaces,
\* snapshots and ignored lines do not change it.
C29_ActivePath ==
    current_stream.parser.current_property = MostRecentPath(LinesOf(SubSeq(body, 1, Consumed)))

\* The thinking path came after the content path, and a continuation after it.
C29_Witness ==
    /\ body = LineContentHi \o <<NL>> \o LineThinking \o <<NL>> \o LineContinue \o <<NL>>
    /\ current_stream.buffer = <<>>
    /\ current_stream.parser.current_property = Some(ThinkingPath)
    /\ Len(ItemsNow) = 3

MaxPatches == 3

\* Trees the builder starts from: {}, {"a":"x"}, {"a":{"b":5}}, {"a":null},
\* {"a":["x"]}, {"a":{"b":["x"],"z":"k"}}.
PatchStartTrees ==
    {Scalar(EObj),
     Obj({<<"a", Text(<<"x">>)>>}),
     Obj({<<"a", Obj({<<"b", Scalar(Num(5))>>})>>}),
     Obj({<<"a", Scalar(Null)>>}),
     Obj({<<"a", Arr(<<Text(<<"x">>)>>)>>}),
     Obj({<<"a", Obj({<<"b", Arr(<<Text(<<"x">>)>>)>>, <<"z", Text(<<"k">>)>>})>>})}

\* a, a/b, a/b/c, a/0/c
PatchPaths ==
    {<<"a">>, <<"a", "/", "b">>, <<"a", "/", "b", "/", "c">>, <<"a", "/", "0", "/", "c">>}
PatchValues == {Text(<<"x">>), Scalar(Num(5)), Obj({<<"b", Text(<<"y">>)>>})}
Patches == [p : {Some(pth) : pth \in PatchPaths}, v : PatchValues, o : {NoneS, Some(<<"APPEND">>)}]

PatchInit ==
    /\ builder_inner \in PatchStartTrees
    /\ append_path = ContentPath
    /\ appended = <<>>
    /\ append_err = NoErr
    /\ TokenIdle
    /\ SharedIdle
    /\ WaitIdle
    /\ pc = "Ended"
    /\ target = COMPLETION_PATH
    /\ message_id_for_continuation = NoneLeaf
    /\ current_stream = NewStream
    /\ out = <<>>
    /\ requests = <<>>
    /\ streams = <<>>
    /\ blocks = 0
    /\ body = <<>>
    /\ sent = 0

\* builder.apply_update(&patch); a failed update is the last one (the stream
\* that owns the builder returns).
PatchApply ==
    /\ Len(appended) < MaxPatches
    /\ append_err = NoErr
    /\ \E patch \in Patches :
          LET applied == apply_update(builder_inner, patch)
          IN /\ builder_inner' = applied.inner
             /\ append_err' = applied.err
             /\ appended' = Append(appended, patch)
    /\ UNCHANGED <<pc, target, message_id_for_continuation, current_stream, out,
                   requests, streams, blocks, body, sent, append_path>>
    /\ UNCHANGED <<tokenVars, sharedVars, waitVars>>

SpecPatch == PatchInit /\ [][PatchApply]_vars

\* The patches applied successfully so far.
Applied ==
    IF append_err = NoErr THEN appended ELSE SubSeq(appended, 1, Len(appended) - 1)

\* Every non-terminal prefix of `path` is an object node of `tree`.
ParentsAreObjects(tree, path) ==
    LET keys == Split(path)
    IN \A i \in 1..(Len(keys) - 1) : IsObject(Sub(tree, SubSeq(keys, 1, i)))

\* C28 as stated: after any sequence of applied patches every patch path that
\* was applied successfully has all its non-terminal prefixes at object nodes
\* of the tree.
C28_EveryAppliedPath ==
    \A j \in 1..Len(Applied) : ParentsAreObjects(builder_inner, Applied[j].p.val)

\* C28 (PartialTree): whenever a patch with path k1/.../kn has just been
\* applied successfully, each non-terminal prefix k1/.../ki (i < n) is an
\* object node of the tree; a prefix that was missing before holds nothing but
\* the next segment (it was created as an empty object, whatever the segment's
\* name), and no patch fails on a missing or non-object parent: SET never
\* fails and APPEND fails only with a type mismatch at the final segment.
C28_PartialTree ==
    [][appended' # appended =>
          LET patch == Last(appended')
              keys == Split(patch.p.val)
          IN /\ append_err' \in {NoErr, Err("TypeMismatch", patch.p.val)}
             /\ ~patch.o.some => append_err' = NoErr
             /\ append_err' # NoErr =>
                   ~(/\ IsString(patch.v)
                     /\ \/ Sub(builder_inner, keys) = Absent
                        \/ IsString(Sub(builder_inner, keys)))
             /\ append_err' = NoErr =>
                   /\ ParentsAreObjects(builder_inner', patch.p.val)
                   /\ \A i \in 1..(Len(keys) - 1) :
                         Sub(builder_inner, SubSeq(keys, 1, i)) = Absent =>
                            \A q \in DOMAIN Sub(builder_inner', SubSeq(keys, 1, i)) :
                               q # <<>> /\ q[1] = keys[i + 1]]_vars

\* A patch at a/0/c was applied to a tree that had a string at a, and one at
\* a/b/c after it.
C28_Witness ==
    /\ Len(appended) = 2
    /\ append_err = NoErr
    /\ appended[1].p.val = <<"a", "/", "0", "/", "c">>
    /\ appended[2].p.val = <<"a", "/", "b", "/", "c">>
    /\ appended[2].o = Some(<<"APPEND">>)
    /\ IsObject(Sub(builder_inner, <<K("a"), K("0")>>))
    /\ Sub(builder_inner, <<K("a"), K("b"), K("c")>>) = Text(<<"x">>)

\* The shortest prefix of `keys` (the path without its final segment) at which
\* `tree` holds a value that is not an object: -1 when every node on the way
\* is an object or missing.
FirstNonObject(tree, keys) ==
    LET B == {i \in 0..(Len(keys) - 1) :
                 /\ Sub(tree, SubSeq(keys, 1, i)) # Absent
                 /\ ~IsObject(Sub(tree, SubSeq(keys, 1, i)))}
    IN IF B = {} THEN -1 ELSE CHOOSE i \in B : \A k \in B : i <= k

\* C38: a patch never fails because of the type of a node on the way.  When a
\* non-terminal segment of its path, the parent of the final segment included,
\* holds a value that is not an object (a string, a number, null, an array),
\* the step that applies the patch puts an empty object in its place and
\* applies the patch beneath it: what that node held is gone (the node now
\* holds the rest of the path and nothing else), the tree outside it is as
\* before, a SET leaves its value at the path and an APPEND of a text that
\* text, and the only failure is the APPEND of an operand that is not a text.
C38_IntermediateReplaced ==
    [][appended' # appended =>
          LET patch == Last(appended')
              keys == Split(patch.p.val)
              i == FirstNonObject(builder_inner, keys)
              node == SubSeq(keys, 1, i)
              now == Sub(builder_inner', node)
          IN i >= 0 =>
                /\ append_err' # NoErr <=> (patch.o.some /\ ~IsString(patch.v))
                /\ append_err' # NoErr => append_err' = Err("TypeMismatch", patch.p.val)
                /\ IsObject(now)
                /\ \A q \in DOMAIN now :
                      IsPrefix(SubSeq(keys, i + 1, Len(keys)), q)
                         \/ IsPrefix(q, SubSeq(keys, i + 1, Len(keys)))
                /\ \A x \in DOMAIN builder_inner :
                      ~IsPrefix(node, x) =>
                         x \in DOMAIN builder_inner' /\ builder_inner'[x] = builder_inner[x]
                /\ append_err' = NoErr => Sub(builder_inner', keys) = patch.v]_vars

\* SET a/b/c = "x" was applied to {"a":{"b":["x"],"z":"k"}}: the array at a/b
\* gave way to {"c":"x"} and z is as before.
C38_Witness ==
    /\ Len(appended) = 1
    /\ appended[1] = [p |-> Some(<<"a", "/", "b", "/", "c">>), v |-> Text(<<"x">>), o |-> NoneS]
    /\ append_err = NoErr
    /\ builder_inner =
          Obj({<<"a", Obj({<<"b", Obj({<<"c", Text(<<"x">>)>>})>>, <<"z", Text(<<"k">>)>>})>>})

(***************************************************************************)
(* Operation names (SpecOps): one stream whose blocks are whole data lines *)
(* with a non-empty path, each with every value and operation name.        *)
(***************************************************************************)
\* Data lines a stream of SpecOps receives.
MaxOpFrames == 2

OpPaths == {ContentPath, ThinkingPath, StatusPath}
\* "v": a text, a number, an object, null.
OpValues == {Text(<<"x">>), Scalar(Num(5)), Obj({<<"k", Text(<<"x">>)>>}), Scalar(Null)}
\* "o": missing, the two names apply_update knows, and names it does not.
KnownOps == {Some(<<"SET">>), Some(<<"APPEND">>)}
OperationNames == {NoneS} \cup KnownOps \cup {Some(<<"BOGUS">>), Some(<<"set">>)}
OpFrames == [p : {Some(path) : path \in OpPaths}, v : OpValues, o : OperationNames]
OpLine(f) == DataLine(PatchDoc(f.p, f.v, f.o))

\* bytes.next() returns the next block: one data line with its newline.
OpsRecv ==
    /\ current_stream.open
    /\ ~HasLine(current_stream.buffer)
    /\ NewlinesIn(body) < MaxOpFrames
    /\ \E f \in OpFrames :
          /\ current_stream' = Extend(current_stream, OpLine(f) \o <<NL>>)
          /\ body' = body \o OpLine(f) \o <<NL>>
          /\ sent' = Len(body')
    /\ UNCHANGED streams
    /\ UNCHANGED runVars

\* The line loop of the stream is DecodeLine.
OpsNext ==
    \/ OpsRecv
    \/ DecodeLine

SpecOps == FramesInit /\ [][OpsNext]_vars

\* C26 (operation names): the step in which a stream takes a frame with a
\* non-empty path and a value whose operation name is neither SET nor APPEND
\* ends the stream with exactly one item, the unsupported-operation error at
\* that path, and no chunk, also when the path is the content or the thinking
\* path and the value a text; the step that takes a frame without operation
\* name leaves the parser, the stream and the items as the same frame with
\* the name SET does, and the path then holds the value.  A frame whose value
\* is null fails as a frame without value, whatever its name.
C26_UnknownOperation ==
    [][\A f \in OpFrames :
          (/\ current_stream.buffer = OpLine(f) \o <<NL>>
           /\ current_stream'.buffer = <<>>)
          => LET yielded == SubSeq(streams'[1], Len(streams[1]) + 1, Len(streams'[1]))
                 asSet == process_data_line(current_stream.parser,
                              <<Json(PatchDoc(f.p, f.v, Some(<<"SET">>)))>>)
                 chunk == CASE IsString(f.v) /\ f.p.val = ContentPath -> <<Content(f.v[<<>>].s)>>
                            [] IsString(f.v) /\ f.p.val = ThinkingPath -> <<Thinking(f.v[<<>>].s)>>
                            [] OTHER -> <<>>
             IN CASE f.v = Scalar(Null) ->
                       /\ ~current_stream'.open
                       /\ Len(yielded) = 1
                       /\ yielded[1].tag = "Err"
                  [] f.o \notin KnownOps \cup {NoneS} ->
                       /\ ~current_stream'.open
                       /\ yielded = <<Failure(Err("UnknownOp", f.p.val))>>
                  [] f.o = NoneS ->
                       /\ current_stream'.open
                       /\ current_stream'.parser = asSet.parser
                       /\ yielded = asSet.items
                       /\ yielded = chunk
                       /\ Sub(current_stream'.parser.builder, Split(f.p.val)) = f.v
                  [] OTHER -> TRUE]_vars

\* {"p":"response/content","v":"x"} then {"p":"response/content","v":"x","o":"BOGUS"}:
\* the first frame was applied as SET and yielded its chunk, the second yielded
\* the error and no chunk, and the stream ended.
C26_Witness ==
    /\ body = OpLine([p |-> Some(ContentPath), v |-> Text(<<"x">>), o |-> NoneS]) \o <<NL>>
                \o OpLine([p |-> Some(ContentPath), v |-> Text(<<"x">>),
                           o |-> Some(<<"BOGUS">>)]) \o <<NL>>
    /\ current_stream.buffer = <<>>
    /\ ~current_stream.open
    /\ ItemsNow = <<Content(<<"x">>), Failure(Err("UnknownOp", ContentPath))>>
    /\ Sub(current_stream.parser.builder, Split(ContentPath)) = Text(<<"x">>)

(***************************************************************************)
(* Data lines that are not frames (SpecMalformed): one stream whose blocks *)
(* are whole lines, most of them `data: ` lines whose remainder is not a   *)
(* JSON object with the fields of StreamingUpdate.                         *)
(***************************************************************************)
\* Lines a stream of SpecMalformed receives.
MaxBadFrames == 3

\* The remainder is no JSON, no bytes at all, a number, a string, null, an
\* object whose "p" or "o" is not a string, or an array.
NotJsonLines == {LineGarbage, <<DataPrefix>>}
NotObjectLines ==
    {DataLine(Scalar(Num(5))), DataLine(Text(<<"x">>)), DataLine(Scalar(Null))}
WrongFieldLines ==
    {DataLine(Obj({<<"p", Scalar(Num(5))>>})),
     DataLine(Obj({<<"p", Text(ContentPath)>>, <<"v", Text(<<"x">>)>>, <<"o", Scalar(Num(5))>>}))}
\* ["x"], [5,"x",null], ["response/content","Hi",null], [null,null,null]
LinePositional == DataLine(Arr(<<Text(ContentPath), Text(<<"Hi">>), Scalar(Null)>>))
ArrayLines ==
    {DataLine(Arr(<<Text(<<"x">>)>>)),
     DataLine(Arr(<<Scalar(Num(5)), Text(<<"x">>), Scalar(Null)>>)),
     LinePositional,
     DataLine(Arr(<<Scalar(Null), Scalar(Null), Scalar(Null)>>))}
MalformedLines == NotJsonLines \cup NotObjectLines \cup WrongFieldLines \cup ArrayLines

\* A block: one line, or a line that is not a frame with `event: finish`
\* behind it.
MalformedBlocks ==
    {line \o <<NL>> : line \in MalformedLines \cup {LineContentHi, FinishLine}}
        \cup {line \o <<NL>> \o FinishLine \o <<NL>> : line \in MalformedLines}

\* bytes.next() returns the next block.
MalformedRecv ==
    /\ current_stream.open
    /\ ~HasLine(current_stream.buffer)
    /\ NewlinesIn(body) < MaxBadFrames
    /\ \E block \in MalformedBlocks :
          /\ current_stream' = Extend(current_stream, block)
          /\ body' = body \o block
          /\ sent' = Len(body')
    /\ UNCHANGED streams
    /\ UNCHANGED runVars

\* The line loop of the stream is DecodeLine.
MalformedNext ==
    \/ MalformedRecv
    \/ DecodeLine

SpecMalformed == FramesInit /\ [][MalformedNext]_vars

\* The remainder of a `data: ` line is a JSON object with the shape of a
\* frame: "p" and "o", when present, are strings or null.
IsPatchObject(line) ==
    LET js == JsonParse(Tail(line))
    IN /\ js.ok
       /\ IsObject(js.val)
       /\ ReadOptStr(js.val, "p").ok
       /\ ReadOptStr(js.val, "o").ok

\* The step in which the stream takes `line` off its buffer yields exactly one
\* item, an error, after the items yielded so far, and ends the stream with
\* the rest of the buffer left as it is.
AbortsOn(line) ==
    (/\ current_stream.open
     /\ Len(current_stream.buffer) > Len(line)
     /\ SubSeq(current_stream.buffer, 1, Len(line) + 1) = line \o <<NL>>
     /\ current_stream'.buffer # current_stream.buffer)
    => /\ ~current_stream'.open
       /\ current_stream'.buffer =
             SubSeq(current_stream.buffer, Len(line) + 2, Len(current_stream.buffer))
       /\ Len(streams'[1]) = Len(streams[1]) + 1
       /\ SubSeq(streams'[1], 1, Len(streams[1])) = streams[1]
       /\ Last(streams'[1]).tag = "Err"

\* C27 (first decode or parse error aborts the stream): the step that takes a
\* `data: ` line whose remainder is not a JSON object matching the patch shape
\* yields exactly one error and ends the stream: the chunks yielded before stay
\* as they are, the next line is not read (an `event: finish` behind it yields
\* no FinalMessage), and a stream that has ended yields nothing more.
C27_FirstParseErrorAborts ==
    [][/\ ~current_stream.open => UNCHANGED streams
       /\ \A line \in MalformedLines : ~IsPatchObject(line) => AbortsOn(line)]_vars

\* The same for every such line but the arrays of three elements that read as
\* (p, v, o) by position.
PositionalLines == {line \in ArrayLines : ParseUpdate(Tail(line)).ok}
AbortsUnlessPositional ==
    [][/\ ~current_stream.open => UNCHANGED streams
       /\ \A line \in MalformedLines \ PositionalLines :
             ~IsPatchObject(line) => AbortsOn(line)]_vars

\* data: ["response/content","Hi",null] was taken as the frame
\* {"p":"response/content","v":"Hi"}: the stream yielded the chunk and goes on.
PositionalApplied ==
    /\ body = LinePositional \o <<NL>>
    /\ current_stream.buffer = <<>>
    /\ current_stream.open
    /\ ItemsNow = <<Content(<<"Hi">>)>>
    /\ Sub(current_stream.parser.builder, Split(ContentPath)) = Text(<<"Hi">>)

(***************************************************************************)
(* Lines without effect (SpecInert): one stream whose blocks are whole     *)
(* lines, frames and `event: finish` mixed with blank lines, `event: toast`*)
(* and lines that are neither `event: finish` nor start with `data: `.     *)
(***************************************************************************)
\* Lines a stream of SpecInert receives.
MaxInertFrames == 4

\* A blank line, `event: toast`, a comment, a frame behind `data:` without the
\* space, and `event: finish` with a carriage return before the newline.
LineNoSpace == <<Lit("data:"), Json(PatchDoc(Some(ContentPath), Text(<<"Hi">>), NoneS))>>
LineFinishCr == FinishLine \o <<Lit("\r")>>
InertLines == {<<>>, ToastLine, LineComment, LineNoSpace, LineFinishCr}
EffectiveLines ==
    {LineContentHi, LineThinking, LineContinue, LineStatusIncomplete, LineError, FinishLine}

\* bytes.next() returns the next block: one line with its newline.
InertRecv ==
    /\ current_stream.open
    /\ ~HasLine(current_stream.buffer)
    /\ NewlinesIn(body) < MaxInertFrames
    /\ \E line \in InertLines \cup EffectiveLines :
          /\ current_stream' = Extend(current_stream, line \o <<NL>>)
          /\ body' = body \o line \o <<NL>>
          /\ sent' = Len(body')
    /\ UNCHANGED streams
    /\ UNCHANGED runVars

\* The line loop of the stream is DecodeLine.
InertNext ==
    \/ InertRecv
    \/ DecodeLine

SpecInert == FramesInit /\ [][InertNext]_vars

IsEffective(line) == line \notin InertLines
\* The lines taken off the buffer so far, and those of them with an effect.
TakenLines == LinesOf(SubSeq(body, 1, Consumed))
InertTaken == Len(TakenLines) - Len(SelectSeq(TakenLines, IsEffective))

\* C31 (inert lines): blank lines, `event: toast` lines and lines that are
\* neither `event: finish` nor prefixed `data: ` change nothing: at every
\* moment the stream that has taken some lines off its buffer has the tree,
\* the current_property, the items (chunks, error, FinalMessage) and the
\* returned-or-not of a new stream fed the same lines without the inert ones.
C31_InertLines ==
    LET ref == Feed(NewStream, Join(SelectSeq(TakenLines, IsEffective)))
    IN /\ current_stream.parser = ref.st.parser
       /\ ItemsNow = ref.items
       /\ current_stream.open = ref.st.open

\* Two inert lines stood between a content frame and `event: finish`, and the
\* stream yielded the chunk and the FinalMessage.
C31_Witness ==
    /\ InertTaken >= 2
    /\ Len(TakenLines) = 4
    /\ TakenLines[1] = LineContentHi
    /\ TakenLines[4] = FinishLine
    /\ Len(ItemsNow) = 2
    /\ ItemsNow[1] = Content(<<"Hi">>)
    /\ IsFinal(ItemsNow[2])

(***************************************************************************)
(* Properties of continue_stream (SpecGated)                               *)
(***************************************************************************)
\* The request continue_stream is called for.
GivenRequest == [path |-> CONTINUE_PATH, message_id |-> Num(7)]

\* C32: continue_stream performs one gated exchange for the message it is
\* given.  It fetches at most one challenge, for the continue path, solves it
\* once, and issues at most one request, the continuation of the given message
\* with the token of that solve; what it yields is what that one stream yields,
\* unchanged and in order, deltas first and a FinalMessage or an error last
\* (or the error of the exchange when no stream was opened); and once it has
\* yielded a FinalMessage, INCOMPLETE or not, it has returned.
C32_OneContinuationExchange ==
    entry = "continue_stream" =>
       /\ Len(challenges) <= 1 /\ Len(solved) <= 1 /\ Len(requests) <= 1
       /\ \A i \in 1..Len(challenges) : challenges[i] = CONTINUE_PATH
       /\ requests # <<>> =>
             /\ requests = <<GivenRequest>>
             /\ Len(challenges) = 1 /\ solved = <<1>> /\ tokens_used = <<1>>
       /\ Len(streams) <= 1
       /\ streams # <<>> => requests # <<>> /\ out = streams[1]
       /\ streams = <<>> /\ out # <<>> => pc = "Failed" /\ Len(out) = 1 /\ out[1].tag = "Err"
       /\ \A i \in 1..(Len(out) - 1) : IsDelta(out[i])
       /\ (out # <<>> /\ IsTerminal(Last(out))) => pc \in {"Complete", "Failed"}
       /\ pc # "NeedsContinuation"

\* continue_stream forwarded a delta and an INCOMPLETE FinalMessage and
\* returned, one request made.
C32_Witness ==
    /\ entry = "continue_stream"
    /\ pc = "Complete"
    /\ Len(out) >= 2
    /\ IsDelta(out[1])
    /\ IsIncompleteFinal(Last(out))
    /\ requests = <<GivenRequest>>

(***************************************************************************)
(* The end of a stream (SpecDecode)                                        *)
(***************************************************************************)
\* `event: finish` has been processed by a stream that had not returned, and
\* the tree it found builds into a Message or does not.
FinishProcessed == \E i \in 1..Len(body) : Processed(FinishLine, i)
FinishBuilt ==
    \E i \in 1..Len(body) :
       Processed(FinishLine, i) /\ build(RunBefore(FinishLine, i).st.parser.builder).ok
HasFinal(items) == \E k \in 1..Len(items) : IsFinal(items[k])

\* C34 as claimed: the stream has emitted a FinalMessage if and only if a
\* complete `event: finish` line has been processed before any error.
C34_FinalIffFinish == HasFinal(ItemsNow) <=> FinishProcessed

\* The body closes: bytes.next() returns None and the stream ends.
BodyCloses ==
    /\ current_stream.open
    /\ ~current_stream'.open
    /\ current_stream'.buffer = current_stream.buffer
    /\ ~HasLine(current_stream.buffer)

\* C34, amended: the stream has emitted a FinalMessage if and only if a
\* complete `event: finish` line has been processed before any error and the
\* tree built into a Message (when it does not, that line yields the build
\* error); the step in which the body closes emits nothing, so a stream whose
\* body closes without such a line ends with no FinalMessage and no error from
\* the close, whatever patches were applied.
C34_FinalIffFinishBuilt ==
    /\ [](HasFinal(ItemsNow) <=> FinishBuilt)
    /\ [](FinishProcessed /\ ~FinishBuilt => Last(ItemsNow) = Failure(Err("Build", <<>>)))
    /\ [][BodyCloses => UNCHANGED streams]_vars

\* The body closed after two patches and without `event: finish`: the stream
\* ended with the two chunks and nothing else.
C34_Witness ==
    /\ ~current_stream.open
    /\ sent = Len(body)
    /\ current_stream.buffer = <<>>
    /\ ~FinishProcessed
    /\ Len(ItemsNow) = 2
    /\ \A k \in 1..Len(ItemsNow) : IsDelta(ItemsNow[k])

\* The last newline among the first n bytes of the body (0 when none).
LastNewline(n) ==
    LET N == {i \in 1..n : body[i] = NL}
    IN IF N = {} THEN 0 ELSE CHOOSE i \in N : \A k \in N : k <= i

\* C35: a line takes effect only once its newline has been received.  Whenever
\* the stream has worked off its buffer or has returned, the tree, the
\* current_property and the items are those of a stream that received the body
\* only up to the last newline received; the bytes after it are in the buffer
\* and stay there when the body closes, so a last `event: finish` or `data: `
\* line without newline yields no FinalMessage, no chunk and no error.
C35_NewlineTerminated ==
    LET last == LastNewline(sent)
        ref == Feed(NewStream, SubSeq(body, 1, last))
    IN (~current_stream.open \/ ~HasLine(current_stream.buffer)) =>
          /\ ItemsNow = ref.items
          /\ current_stream.parser = ref.st.parser
          /\ ref.st.open => current_stream.buffer = SubSeq(body, last + 1, sent)
          /\ ~ref.st.open => ~current_stream.open

\* The body ended with `event: finish` without a newline after a content
\* frame: the stream ended with the chunk alone, the line still in the buffer.
C35_Witness ==
    /\ body = LineContentHi \o <<NL>> \o FinishLine
    /\ sent = Len(body)
    /\ ~current_stream.open
    /\ current_stream.buffer = FinishLine
    /\ ItemsNow = <<Content(<<"Hi">>)>>

(***************************************************************************)
(* A continuation frame with no path to continue (SpecFrames)              *)
(***************************************************************************)
\* No line taken off the buffer so far is a frame with a non-empty path.
NoExplicitPathYet == ~MostRecentPath(LinesOf(SubSeq(body, 1, Consumed))).some

\* C36: a frame with empty or absent path and a non-object value (a text, a
\* number, null), whatever its operation name, that the stream takes before
\* any frame with a non-empty path, as a new stream's first frame, is dropped:
\* the tree and current_property stay as they are, nothing is yielded and the
\* stream goes on.
C36_DroppedSilently ==
    [][\A pth \in PathLess, v \in NonObjectValues, o \in OpNames :
          (/\ current_stream.buffer = DataLine(PatchDoc(pth, v, o)) \o <<NL>>
           /\ current_stream'.buffer = <<>>
           /\ NoExplicitPathYet)
          => /\ current_stream'.parser = current_stream.parser
             /\ ~current_stream'.parser.current_property.some
             /\ streams' = streams
             /\ current_stream'.open]_vars

\* {"v":" there"} came first and was dropped, {"p":"response/content","v":"Hi"}
\* after it was applied: the tree holds "Hi" alone.
C36_Witness ==
    /\ body = DataLine(PatchDoc(NoneS, Text(<<" there">>), NoneS)) \o <<NL>>
                \o LineContentHi \o <<NL>>
    /\ current_stream.buffer = <<>>
    /\ ItemsNow = <<Content(<<"Hi">>)>>
    /\ Sub(current_stream.parser.builder, Split(ContentPath)) = Text(<<"Hi">>)

(***************************************************************************)
(* Deltas and the FinalMessage (SpecAgree): one stream whose blocks are    *)
(* whole lines: frames that set and append texts at the content and the    *)
(* thinking path, a status, a snapshot, a frame outside `response`, and    *)
(* `event: finish`.                                                        *)
(***************************************************************************)
\* Lines a stream of SpecAgree receives.
MaxAgreeFrames == 4

\* {"p":"response/content","v":"a","o":"APPEND"}
LineAppendContent == DataLine(PatchDoc(Some(ContentPath), Text(<<"a">>), Some(<<"APPEND">>)))
\* {"p":"content","v":"x"}
LineTopContent == DataLine(PatchDoc(Some(<<"content">>), Text(<<"x">>), NoneS))
\* {"v":{"response":{"content":"new"}}}
LineSnapshotNew ==
    DataLine(PatchDoc(NoneS, Obj({<<"response", Obj({<<"content", Text(<<"new">>)>>})>>}), NoneS))
AgreeLines ==
    {LineContentHi, LineAppendContent, LineThinking, LineContinue, LineStatusFinished,
     LineSnapshotNew, LineTopContent, FinishLine}

\* bytes.next() returns the next block: one line with its newline.
AgreeRecv ==
    /\ current_stream.open
    /\ ~HasLine(current_stream.buffer)
    /\ NewlinesIn(body) < MaxAgreeFrames
    /\ \E line \in AgreeLines :
          /\ current_stream' = Extend(current_stream, line \o <<NL>>)
          /\ body' = body \o line \o <<NL>>
          /\ sent' = Len(body')
    /\ UNCHANGED streams
    /\ UNCHANGED runVars

\* The line loop of the stream is DecodeLine.
AgreeNext ==
    \/ AgreeRecv
    \/ DecodeLine

SpecAgree == FramesInit /\ [][AgreeNext]_vars

\* The texts of the deltas of one kind among the items, in order.
RECURSIVE DeltaTexts(_, _)
DeltaTexts(items, tag) ==
    IF items = <<>> THEN <<>>
    ELSE (IF Head(items).tag = tag THEN Head(items).text ELSE <<>>)
            \o DeltaTexts(Tail(items), tag)
\* The text of a field of the Message, none for a field that is absent.
FieldText(leaf) == IF leaf.t = "str" THEN leaf.s ELSE <<>>

\* The stream ended with a FinalMessage whose content is the concatenation of
\* the ContentDelta texts and whose thinking_content that of the ThinkingDelta
\* texts.
DeltasAgree ==
    LET final == Last(ItemsNow).msg
    IN /\ FieldText(final.content) = DeltaTexts(ItemsNow, "Content")
       /\ FieldText(final.thinking_content) = DeltaTexts(ItemsNow, "Thinking")

\* C37 as claimed: in a stream that ended with `event: finish` and a
\* FinalMessage, started from the empty tree, the deltas agree with the
\* message, for every sequence of frames.
C37_DeltasAgree ==
    (ItemsNow # <<>> /\ IsFinal(Last(ItemsNow))) => DeltasAgree

\* The frame of `line` writes a text only by appending: it is a continuation,
\* an APPEND, a SET of the content or thinking path taken while that path
\* holds no text (`parser` is the parser that takes it), or a frame that
\* writes below `response` elsewhere; a snapshot and a frame that writes at
\* `response` or outside it are not.
OnlyAppends(parser, line) ==
    LET upd == ParseUpdate(Tail(line))
        data == upd.data
        keys == Split(data.p.val)
        held == Sub(parser.builder, keys)
    IN \/ line = <<>> \/ line[1] # DataPrefix \/ ~upd.ok
       \/ /\ ~data.p.some \/ data.p.val = <<>>
          /\ data.v # Absent
          /\ ~IsObject(data.v)
       \/ /\ data.p.some
          /\ data.p.val \in {ContentPath, ThinkingPath}
          /\ data.o = Some(<<"APPEND">>) \/ held \in {Absent, Text(<<>>)}
       \/ /\ data.p.some
          /\ Len(keys) = 2
          /\ keys[1] = <<"response">>
          /\ data.p.val \notin {ContentPath, ThinkingPath}

\* Every line taken so far only appends.
RECURSIVE AllAppend(_)
AllAppend(lines) ==
    lines = <<>>
    \/ /\ AllAppend(SubSeq(lines, 1, Len(lines) - 1))
       /\ OnlyAppends(Feed(NewStream, Join(SubSeq(lines, 1, Len(lines) - 1))).st.parser,
                      Last(lines))

\* C37, amended: in a stream that ended with `event: finish` and a
\* FinalMessage, started from the empty tree, the concatenation of the
\* ContentDelta texts equals the content of the FinalMessage and that of the
\* ThinkingDelta texts its thinking_content (none counting as empty), for every
\* sequence of frames that writes the content and the thinking text only by
\* appending: by continuations, APPEND frames, or a SET while the path holds no
\* text, with no snapshot and no frame written at `response` or outside it.
C37_DeltasAgreeWhenAppending ==
    (ItemsNow # <<>> /\ IsFinal(Last(ItemsNow)) /\ AllAppend(TakenLines)) => DeltasAgree

\* SET "Hi", a continuation and an APPEND at the content path, then
\* `event: finish`: three deltas, and the message holds their concatenation.
C37_Witness ==
    /\ TakenLines = <<LineContentHi, LineContinue, LineAppendContent, FinishLine>>
    /\ Len(ItemsNow) = 4
    /\ IsFinal(Last(ItemsNow))
    /\ Last(ItemsNow).msg.content = Str(<<"Hi", " there", "a">>)
    /\ DeltasAgree

(***************************************************************************)
(* `event: finish` on an empty tree (Spec)                                 *)
(***************************************************************************)
\* The next line of the current stream is `event: finish` and its tree is as
\* StreamingMessageBuilder::default() made it.
FinishOnEmptyTree ==
    /\ pc = "Streaming"
    /\ current_stream.open
    /\ Len(current_stream.buffer) >= Len(FinishLine) + 1
    /\ SubSeq(current_stream.buffer, 1, Len(FinishLine) + 1) = FinishLine \o <<NL>>
    /\ current_stream.parser.builder = DefaultBuilder

\* C39: `event: finish` processed while no frame has populated the tree does
\* not fail.  The stream yields the FinalMessage with empty content and every
\* optional field absent and returns, and complete_stream, the status not
\* being INCOMPLETE, yields that message as its last item and ends without a
\* further request.
C39_FinishOnEmptyTree ==
    [][(FinishOnEmptyTree /\ current_stream' # current_stream) =>
          /\ streams' = Yielded(<<Message(DefaultMessage)>>)
          /\ DefaultMessage.content = Str(<<>>)
          /\ \A f \in DOMAIN DefaultMessage \ {"content"} : DefaultMessage[f] = NoneLeaf
          /\ ~current_stream'.open
          /\ entry = "complete_stream" =>
                /\ out' = Append(out, Message(DefaultMessage))
                /\ pc' = "Complete"
                /\ requests' = requests]_vars

\* The first response began with `event: finish`: the run is complete with
\* the default message as its only output, one request made.
C39_Witness ==
    /\ entry = "complete_stream"
    /\ pc = "Complete"
    /\ out = <<Message(DefaultMessage)>>
    /\ Len(requests) = 1
    /\ current_stream.parser.builder = DefaultBuilder

(***************************************************************************)
(* The shared solver under fair scheduling (SpecSharedFair)                *)
(***************************************************************************)
\* solve_challenge has no await: once the guard is handed out the call runs to
\* its return, which is also the claim's proviso that each solve call returns.
SolveReturns ==
    /\ WF_vars(Reserve)
    /\ WF_vars(WriteChallenge)
    /\ WF_vars(WritePrefix)
    /\ WF_vars(WasmSolve)
    /\ WF_vars(ReadStatus)

\* tokio::sync::Mutex hands the lock out in the order it was requested: a run
\* waiting in lock().await is not passed over for ever while the lock is
\* released again and again.
LockFair == \A r \in Runs : SF_vars(SharedLock(r))

\* Nothing is assumed of the challenge fetch, the gated request or the stream
\* read: a run may stay in any of them for ever.
SpecSharedFair == SharedInit /\ [][SharedNext]_vars /\ SolveReturns /\ LockFair

\* C40: the shared solver never deadlocks its users.  Every step in which
\* solve_challenge returns, with a token or with an error, leaves the lock
\* free and the returning run out of the solve step; and, each solve call
\* returning, every run that waits for the lock eventually holds it, however
\* many runs share the solver and wherever the other runs stand.
C40_NeverDeadlocks ==
    /\ [][(solver_pc # "Idle" /\ solver_pc' = "Idle") =>
              /\ lock' = 0
              /\ run_pc'[lock] \in {"Send", "Failed"}]_vars
    /\ \A r \in Runs : (run_pc[r] = "Lock") ~> (run_pc[r] = "Solving" /\ lock = r)

\* A solve call of one run has returned with an error (its reservation is
\* still on the module's stack), and another run, in its first round, holds
\* the lock.
C40_Witness ==
    \E r1, r2 \in Runs :
       /\ r1 # r2
       /\ run_pc[r1] = "Failed"
       /\ stack_pointer < 0
       /\ rounds[r2] = 1
       /\ run_pc[r2] = "Solving"
       /\ lock = r2

=========================================================================
